---- MODULE Spec2Model ----
(***************************************************************************)
(* State-machine model of the mojo_reports synchronisation core:           *)
(*   - the interval reconstruction ("islands and gaps") of                 *)
(*     src/core/core_load_groups.py,                                       *)
(*   - the Sync-State Ledger (core.sync_state) and the core checkpoint of  *)
(*     src/core/core_common.py and src/core/core_etl.py,                   *)
(*   - the raw loaders and the raw orchestrator of src/raw/.               *)
(* Dates are day numbers; day 0 is a Monday (2025-09-01).                  *)
(***************************************************************************)
EXTENDS Integers, Sequences, FiniteSets, Bags, TLC

\* ------------------------------------------------------------------------
\* Bounds of the model
MaxDate == 2   \* observation dates of the fact tables are 0..MaxDate
MaxRows == 3   \* total number of fact rows feeding the interval reconstruction
MaxGap == 1    \* merge_gap_days ranges over 0..MaxGap
MaxLag == 10   \* days since the pass that left the initial ledger: 0..MaxLag
MaxBack == 0   \* upstream records are dated today - MaxBack .. today
MaxRuns == 1   \* runs of the raw orchestrator on a database left by an earlier pass
MaxDay == 1    \* the calendar runs from day 0 to day MaxDay
DailyRuns == 2 \* consecutive daily runs of the pipeline on one day
MaxProcs == 3  \* processes that invoke an orchestrator
MaxSteps == 2  \* steps a process takes inside the body guarded by the lock
MaxLoads == 2  \* loader command lines run beside the core orchestrator
MaxStale == 1  \* fact rows a later pass adds to; intervals of that many are replaced

\* ------------------------------------------------------------------------
\* Optional values (SQL NULL / Python None)
None == << >>
Some(v) == << v >>
Val(o) == o[1]

SetMax(S) == CHOOSE m \in S : \A x \in S : x <= m
SetMin(S) == CHOOSE m \in S : \A x \in S : m <= x

VARIABLES
    lesson_facts,             \* bag: core.lesson JOIN lesson_staff JOIN timetable_schedule
    attendance_facts,         \* bag: core.attendance_event JOIN lesson JOIN timetable_schedule
    mark_facts,               \* bag: core.mark_current
    merge_gap_days,           \* CONFIG groups.merge_gap_days
    group_staff_assignment,   \* table core.group_staff_assignment
    group_student_membership, \* table core.group_student_membership
    groups_pc                 \* "load": facts are being written; "built": run_groups has run

groupVars == << lesson_facts, attendance_facts, mark_facts, merge_gap_days,
                group_staff_assignment, group_student_membership, groups_pc >>

VARIABLES
    today,        \* the calendar day (date.today())
    api,          \* upstream source: endpoint -> records it serves
    sync_state,   \* core.sync_state: endpoint -> optional ledger row
    raw,          \* raw fact tables, one per raw endpoint
    raw_pc,       \* raw orchestrator: [phase, i] position in main()
    raw_mode,     \* raw orchestrator: --mode
    raw_force,    \* raw orchestrator: --force-weekly-deep
    raw_today,    \* raw orchestrator: the local `today` of the running function
    raw_job,      \* raw orchestrator: the loader call in progress, if any
    raw_writes,   \* rows written to the raw tables by the current raw run
    raw_runs,     \* number of raw runs started step by step
    fetched,      \* endpoint -> days requested from upstream and kept, this pass
    pass_ledger,  \* core.sync_state as it was when the daily pass began
    crash_log,    \* history: the command line under test, the database an
                  \* uninterrupted run of it produces, whether a run was killed
    core,         \* conformed fact tables: core.lesson, core.attendance_event, ...
    core_pc,      \* core orchestrator: position in main()
    core_args,    \* core orchestrator: --mode, --force-weekly-deep, --date-from, --date-to
    core_pass,    \* core orchestrator: locals of the function in progress, if any
    core_writes,  \* rows written to the core tables by the current core run
    core_runs,    \* number of core runs started by the daily pipeline
    lock_holder,  \* PostgreSQL advisory locks: key -> the session holding it, if any
    session       \* process -> its position in advisory_lock(key, wait)

dbVars == << today, api, sync_state, raw, core >>
rawVars == << raw_pc, raw_mode, raw_force, raw_today, raw_job, raw_writes, raw_runs,
              fetched, pass_ledger, crash_log >>
lockVars == << lock_holder, session >>
coreVars == << core_pc, core_args, core_pass, core_writes, core_runs, lockVars >>
etlVars == << dbVars, rawVars, coreVars >>

VARIABLES
    report_run,    \* table rep.report_run: bag of rows (every row carries a pdf_drive_id)
    delivery_log,  \* table rep.report_delivery_log: bag of rows
    report_pc,     \* coordinator daily report: position in main()
    email_queue,   \* table rep.email_queue: id -> status and try_count
    worker_batch,  \* email worker: rows of the fetched batch not yet handled
    claim_count,   \* history: id -> number of times _fetch_pending_batch returned it
    send_call,     \* the last call of with_retries: its attempts and its callable
    send_result    \* what that call did: invocations made, value returned or raised

reportVars == << report_run, delivery_log, report_pc >>
workerVars == << email_queue, worker_batch, claim_count >>
retryVars == << send_call, send_result >>
mailVars == << reportVars, workerVars, retryVars >>

vars == << groupVars, etlVars, mailVars >>

\* ------------------------------------------------------------------------
\* Endpoints, calendar and configuration

att_ENDPOINT == "/attendance"
mc_ENDPOINT == "/marks/current"
mf_ENDPOINT == "/marks/final"
sch_ENDPOINT == "/schedule"
RAW_ENDPOINTS == { att_ENDPOINT, mc_ENDPOINT, mf_ENDPOINT, sch_ENDPOINT }
CORE_ORCHESTRATOR_ENDPOINT == "core:orchestrator"
core_attendance_ENDPOINT == "core_attendance"
core_marks_ENDPOINT == "core_marks"
Endpoints == RAW_ENDPOINTS \cup
    { CORE_ORCHESTRATOR_ENDPOINT, core_attendance_ENDPOINT, core_marks_ENDPOINT }

\* the order in which the raw orchestrator visits the endpoints
RawOrder == << att_ENDPOINT, mc_ENDPOINT, mf_ENDPOINT, sch_ENDPOINT >>

\* api.windows.attendance_days_back and api.windows.schedule_days_forward when
\* the configuration does not set them
attendance_days_back == 2
schedule_days_forward == 7

\* load.weekly_deep_days as configured here (60 when the configuration does
\* not set it)
weekly_deep_days == 8

\* every day a record of the model can carry (a fetch without a date filter)
AllDays == (0 - 3 * weekly_deep_days)..(3 * weekly_deep_days)

Max2(a, b) == IF a >= b THEN a ELSE b
Min2(a, b) == IF a <= b THEN a ELSE b

\* date.weekday(): 0 is Monday
weekday(d) == d % 7
_monday_of(d) == d - weekday(d)
week_range(d) == << _monday_of(d), _monday_of(d) + 6 >>
_date_range(d_from, d_to) == d_from..d_to
_mondays_between(d_from, d_to) ==
    { m \in _monday_of(d_from).._monday_of(d_to) : weekday(m) = 0 }

\* positions of the raw orchestrator; job-free and idle
Pc(phase, i) == [ phase |-> phase, i |-> i ]
NoLedger == [ ep \in Endpoints |-> None ]
NoRows == [ ep \in RAW_ENDPOINTS |-> {} ]

NoCrash ==
    [ mode |-> "auto", force |-> FALSE, killed |-> FALSE,
      expected |-> [ sync_state |-> NoLedger, raw |-> NoRows ] ]

\* ------------------------------------------------------------------------
\* Reports and mail: src/reports/coordinator_daily_attendance_report.py,
\* src/google/email_worker.py, src/google/retry.py

\* programme codes that have coordinators, in the order of sorted()
Programmes == << "DP", "MYP" >>

\* rows of rep.email_queue
MaxMessages == 2
MessageIds == 1..MaxMessages
Message(status, try_count) == [ status |-> status, try_count |-> try_count ]

NoCall == [ attempts |-> 0, call |-> << >> ]
NoResult == [ calls |-> 0, raised |-> FALSE, at |-> 0, exc |-> None ]

\* No report is running, the worker has no batch, the tables are empty.
MailIdle ==
    /\ report_run = EmptyBag
    /\ delivery_log = EmptyBag
    /\ report_pc = [ phase |-> "idle", report_date |-> 0, todo |-> << >> ]
    /\ email_queue = [ id \in MessageIds |-> Message("sent", 0) ]
    /\ worker_batch = << >>
    /\ claim_count = [ id \in MessageIds |-> 0 ]
    /\ send_call = NoCall
    /\ send_result = NoResult

\* The orchestrators are at rest.
RawIdle ==
    /\ raw_pc = Pc("idle", 0)
    /\ raw_mode = "auto"
    /\ raw_force = FALSE
    /\ raw_today = 0
    /\ raw_job = None
    /\ raw_writes = 0
    /\ raw_runs = 0
    /\ fetched = NoRows
    /\ pass_ledger = NoLedger
    /\ crash_log = NoCrash

CoreTables == { "lesson", "attendance_event", "mark_current", "mark_final" }
NoCore == [ t \in CoreTables |-> {} ]
Args(mode, force, d_from, d_to) ==
    [ mode |-> mode, force |-> force, d_from |-> d_from, d_to |-> d_to ]

\* advisory lock keys of the two orchestrators
RAW_LOCK_KEY == 1001
CORE_LOCK_KEY == 1002
LockKeys == { RAW_LOCK_KEY, CORE_LOCK_KEY }
Procs == 1..MaxProcs
NoLocks == [ k \in LockKeys |-> None ]
Session(pc, key, wait, steps) == [ pc |-> pc, key |-> key, wait |-> wait, steps |-> steps ]
NoSessions == [ p \in Procs |-> Session("idle", RAW_LOCK_KEY, TRUE, 0) ]

CoreIdle ==
    /\ core_pc = "idle"
    /\ core_args = Args("auto", FALSE, None, None)
    /\ core_pass = None
    /\ core_writes = 0
    /\ core_runs = 0
    /\ lock_holder = NoLocks
    /\ session = NoSessions

EtlIdle ==
    /\ today = 0
    /\ api = NoRows
    /\ sync_state = NoLedger
    /\ raw = NoRows
    /\ core = NoCore
    /\ RawIdle
    /\ CoreIdle

\* ------------------------------------------------------------------------
\* Interval reconstruction: src/core/core_load_groups.py

Groups == {"G1"}
Persons == {"P1", "P2"}
Pairs == Groups \X Persons
Dates == 0..MaxDate
GapValues == 0..MaxGap

\* groups.merge_gap_days when the configuration does not set it
DefaultMergeGapDays == 14

\* The rows of a table in the order a sequential scan returns them: SQL fixes
\* no order, so every arrangement of the bag's rows is possible.
ScanOrders(table) ==
    LET rows == BagToSet(table)
        n == BagCardinality(table)
    IN  { s \in [1..n -> rows] :
            \A r \in rows : Cardinality({ i \in 1..n : s[i] = r }) = CopiesIn(r, table) }

\* SELECT DISTINCT: the first occurrence of every row, in scan order.
RECURSIVE Distinct(_)
Distinct(s) ==
    IF s = << >> THEN << >>
    ELSE LET init == Distinct(SubSeq(s, 1, Len(s) - 1))
             last == s[Len(s)]
         IN  IF \E i \in 1..Len(init) : init[i] = last THEN init ELSE Append(init, last)

\* CTE base of SQL_BUILD_GROUP_STAFF: lessons actually taught, replacements excluded.
base_staff(scan) ==
    LET kept == SelectSeq(scan, LAMBDA r : ~r.is_replacement)
    IN  Distinct([ i \in 1..Len(kept) |->
                    [ k |-> << kept[i].group_id, kept[i].staff_id >>, d |-> kept[i].d ] ])

\* CTEs att, mc and base of SQL_BUILD_GROUP_STUDENTS: attendance UNION marks.
base_students(scanAtt, scanMc) ==
    LET att == [ i \in 1..Len(scanAtt) |->
                  [ k |-> << scanAtt[i].group_id, scanAtt[i].student_id >>, d |-> scanAtt[i].d ] ]
        mc  == [ i \in 1..Len(scanMc) |->
                  [ k |-> << scanMc[i].group_id, scanMc[i].student_id >>, d |-> scanMc[i].d ] ]
    IN  Distinct(Distinct(att) \o Distinct(mc))

\* CTE points: every observation date is the point interval [d, d].
points(base) ==
    [ i \in 1..Len(base) |-> [ k |-> base[i].k, start_date |-> base[i].d, end_date |-> base[i].d ] ]

\* PARTITION BY group_id, staff_id / student_id
PartitionBy(pts, k) == SelectSeq(pts, LAMBDA p : p.k = k)

\* Mutant of OrderBy: the window has no ORDER BY, rows come in scan order.
OrderBy_scan_order(pts) == pts

\* ORDER BY start_date, end_date
OrderBy(pts) ==
    SortSeq(pts, LAMBDA a, b :
        \/ a.start_date < b.start_date
        \/ a.start_date = b.start_date /\ a.end_date < b.end_date)

\* Mutant of prev_run_max: the window frame ends at CURRENT ROW, not at 1 PRECEDING.
prev_run_max_current_row(w, i) ==
    Some(SetMax({ w[j].end_date : j \in 1..i }))

\* CTE prevmax: MAX(end_date) OVER (... ROWS BETWEEN UNBOUNDED PRECEDING AND 1 PRECEDING)
prev_run_max(w, i) ==
    IF i = 1 THEN None ELSE Some(SetMax({ w[j].end_date : j \in 1..(i - 1) }))

\* Mutant of is_new: the comparison is >= instead of >.
is_new_inclusive(w, i, gap) ==
    LET prev == prev_run_max(w, i)
    IN  IF prev = None THEN 1
        ELSE IF w[i].start_date >= Val(prev) + gap THEN 1
        ELSE 0

\* CTE marked
is_new(w, i, gap) ==
    LET prev == prev_run_max(w, i)
    IN  IF prev = None THEN 1
        ELSE IF w[i].start_date > Val(prev) + gap THEN 1
        ELSE 0

\* CTE seg: SUM(is_new) OVER (... ROWS BETWEEN UNBOUNDED PRECEDING AND CURRENT ROW)
RECURSIVE seg_id(_, _, _)
seg_id(w, i, gap) ==
    IF i = 0 THEN 0 ELSE seg_id(w, i - 1, gap) + is_new(w, i, gap)

\* Mutant of GroupBySeg: valid_to is MIN(end_date) instead of MAX(end_date).
GroupBySeg_min_end(w, k, gap) ==
    { [ k |-> k,
        valid_from |-> SetMin({ w[i].start_date : i \in { j \in 1..Len(w) : seg_id(w, j, gap) = s } }),
        valid_to   |-> SetMin({ w[i].end_date   : i \in { j \in 1..Len(w) : seg_id(w, j, gap) = s } }) ]
      : s \in { seg_id(w, i, gap) : i \in 1..Len(w) } }

\* The final SELECT of one partition: GROUP BY group_id, person, seg_id.
GroupBySeg(w, k, gap) ==
    { [ k |-> k,
        valid_from |-> SetMin({ w[i].start_date : i \in { j \in 1..Len(w) : seg_id(w, j, gap) = s } }),
        valid_to   |-> SetMax({ w[i].end_date   : i \in { j \in 1..Len(w) : seg_id(w, j, gap) = s } }) ]
      : s \in { seg_id(w, i, gap) : i \in 1..Len(w) } }

\* CTEs points .. seg and the final SELECT, for every partition of the base.
ReconstructIntervals(base, gap) ==
    LET pts == points(base)
    IN  UNION { GroupBySeg(OrderBy(PartitionBy(pts, k)), k, gap)
                : k \in { pts[i].k : i \in 1..Len(pts) } }

SQL_BUILD_GROUP_STAFF(scan, gap) == ReconstructIntervals(base_staff(scan), gap)

SQL_BUILD_GROUP_STUDENTS(scanAtt, scanMc, gap) ==
    ReconstructIntervals(base_students(scanAtt, scanMc), gap)

run_groups_upsert ==
    \E scanL \in ScanOrders(lesson_facts),
       scanA \in ScanOrders(attendance_facts),
       scanM \in ScanOrders(mark_facts) :
        /\ group_staff_assignment' =
              group_staff_assignment \cup SQL_BUILD_GROUP_STAFF(scanL, merge_gap_days)
        /\ group_student_membership' =
              group_student_membership
                \cup SQL_BUILD_GROUP_STUDENTS(scanA, scanM, merge_gap_days)

\* run_groups: TRUNCATE both tables and rebuild them from the whole fact set.
run_groups_tables ==
    \E scanL \in ScanOrders(lesson_facts),
       scanA \in ScanOrders(attendance_facts),
       scanM \in ScanOrders(mark_facts) :
        /\ group_staff_assignment' = SQL_BUILD_GROUP_STAFF(scanL, merge_gap_days)
        /\ group_student_membership' = SQL_BUILD_GROUP_STUDENTS(scanA, scanM, merge_gap_days)

run_groups ==
    /\ run_groups_tables
    /\ groups_pc' = "built"
    /\ UNCHANGED << lesson_facts, attendance_facts, mark_facts, merge_gap_days >>
    /\ UNCHANGED << etlVars, mailVars >>

FactRowCount ==
    BagCardinality(lesson_facts) + BagCardinality(attendance_facts) + BagCardinality(mark_facts)

\* A lesson taught by a staff member is conformed (run_schedule).
InsertLesson ==
    /\ groups_pc = "load"
    /\ FactRowCount < MaxRows
    /\ \E g \in Groups, s \in Persons, d \in Dates, repl \in BOOLEAN :
        lesson_facts' = lesson_facts (+)
            SetToBag({ [ group_id |-> g, staff_id |-> s, d |-> d, is_replacement |-> repl ] })
    /\ UNCHANGED << attendance_facts, mark_facts, merge_gap_days,
                    group_staff_assignment, group_student_membership, groups_pc >>
    /\ UNCHANGED << etlVars, mailVars >>

\* An attendance record of a student is conformed (run_attendance).
InsertAttendance ==
    /\ groups_pc = "load"
    /\ FactRowCount < MaxRows
    /\ \E g \in Groups, s \in Persons, d \in Dates :
        attendance_facts' = attendance_facts (+)
            SetToBag({ [ group_id |-> g, student_id |-> s, d |-> d ] })
    /\ UNCHANGED << lesson_facts, mark_facts, merge_gap_days,
                    group_staff_assignment, group_student_membership, groups_pc >>
    /\ UNCHANGED << etlVars, mailVars >>

\* A current mark of a student is conformed (run_marks).
InsertMark ==
    /\ groups_pc = "load"
    /\ FactRowCount < MaxRows
    /\ \E g \in Groups, s \in Persons, d \in Dates :
        mark_facts' = mark_facts (+)
            SetToBag({ [ group_id |-> g, student_id |-> s, d |-> d ] })
    /\ UNCHANGED << lesson_facts, attendance_facts, merge_gap_days,
                    group_staff_assignment, group_student_membership, groups_pc >>
    /\ UNCHANGED << etlVars, mailVars >>

\* The end-to-end scenario of the specification: partition (G1, P1), attendance on
\* 2025-09-01, 09-03, 09-20 and 10-10, gap tolerance 14.
SeedDates == { 0, 2, 19, 39 }
SeedFacts == SetToBag({ [ group_id |-> "G1", student_id |-> "P1", d |-> d ] : d \in SeedDates })

GroupsEmpty ==
    /\ lesson_facts = EmptyBag
    /\ attendance_facts = EmptyBag
    /\ mark_facts = EmptyBag
    /\ group_staff_assignment = {}
    /\ group_student_membership = {}
    /\ groups_pc = "load"

InitGroups ==
    /\ MailIdle
    /\ EtlIdle
    /\ \/ /\ GroupsEmpty
          /\ merge_gap_days \in GapValues
       \/ /\ lesson_facts = EmptyBag
          /\ attendance_facts = SeedFacts
          /\ mark_facts = EmptyBag
          /\ group_staff_assignment = {}
          /\ group_student_membership = {}
          /\ groups_pc = "load"
          /\ merge_gap_days = DefaultMergeGapDays

NextGroups ==
    \/ InsertLesson
    \/ InsertAttendance
    \/ InsertMark
    \/ run_groups

SpecGroups == InitGroups /\ [][NextGroups]_vars

\* ------------------------------------------------------------------------
\* run_groups on tables that an earlier run filled: after a rebuild a later
\* pass of the orchestrator conforms more facts and run_marks deletes marks

\* the next pass of the core orchestrator begins
NextPass ==
    /\ groups_pc = "built"
    /\ FactRowCount <= MaxStale
    /\ groups_pc' = "load"
    /\ UNCHANGED << lesson_facts, attendance_facts, mark_facts, merge_gap_days,
                    group_staff_assignment, group_student_membership >>
    /\ UNCHANGED << etlVars, mailVars >>

\* run_marks: DELETE FROM core.mark_current in its window
DeleteMark ==
    /\ groups_pc = "load"
    /\ \E r \in BagToSet(mark_facts) : mark_facts' = mark_facts (-) SetToBag({ r })
    /\ UNCHANGED << lesson_facts, attendance_facts, merge_gap_days,
                    group_staff_assignment, group_student_membership, groups_pc >>
    /\ UNCHANGED << etlVars, mailVars >>

InitRebuild ==
    /\ MailIdle
    /\ EtlIdle
    /\ GroupsEmpty
    /\ merge_gap_days \in GapValues

NextRebuild ==
    \/ FactRowCount <= MaxStale /\ InsertLesson
    \/ FactRowCount <= MaxStale /\ InsertAttendance
    \/ FactRowCount <= MaxStale /\ InsertMark
    \/ DeleteMark
    \/ run_groups
    \/ NextPass

SpecRebuild == InitRebuild /\ [][NextRebuild]_vars

\* ------------------------------------------------------------------------
\* Sync-State Ledger as the raw loaders use it: src/raw/base_loader.py,
\* src/raw/raw_orchestrator.py.  A timestamp is modelled by its day.

LedgerRow(wf, wt, now) ==
    [ window_from |-> wf, window_to |-> wt, last_successful_sync_at |-> now ]

\* INSERT ... ON CONFLICT (endpoint) DO UPDATE: the row is overwritten
upsert_sync_state(ledger, endpoint, wf, wt, now) ==
    [ ledger EXCEPT ![endpoint] = Some(LedgerRow(wf, wt, now)) ]

\* row[0] if row and row[0] else None
_last_window_to(ledger, endpoint) ==
    IF ledger[endpoint] = None THEN None ELSE Val(ledger[endpoint]).window_to

_has_any_rows(table) == table # {}

\* ------------------------------------------------------------------------
\* Raw fact tables: src/raw/base_loader.py.  A record is [id, d, hash,
\* lesson_id]; d is its attendance / mark / created / lesson date.

\* INSERT ... ON CONFLICT (id, date) DO UPDATE ... WHERE source_hash <> EXCLUDED.source_hash;
\* rowcount counts the rows inserted or updated.
insert_attendance_rows(table, rows) ==
    LET Conflict(r) == { x \in table : x.id = r.id /\ x.d = r.d }
        written == { r \in rows : \A x \in Conflict(r) : x.hash # r.hash }
        kept == { x \in table : ~ \E r \in written : r.id = x.id /\ r.d = x.d }
    IN  [ table |-> kept \cup written, rowcount |-> Cardinality(written) ]

\* insert_marks_current_rows, insert_marks_final_rows and
\* insert_schedule_lessons_rows are the same statement on their own table
insert_rows(ep, table, rows) == insert_attendance_rows(table, rows)

\* DELETE FROM raw.marks_current WHERE mark_date BETWEEN d_from AND d_to
delete_window(table, d_from, d_to) ==
    LET gone == { x \in table : d_from <= x.d /\ x.d <= d_to }
    IN  [ table |-> table \ gone, rowcount |-> Cardinality(gone) ]

\* ------------------------------------------------------------------------
\* Raw loaders: src/raw/load_attendance.py, load_marks_current.py,
\* load_marks_final.py, load_schedule.py.  A loader call is a job: the days it
\* requests and keeps (sel), the window it deletes first (del), the window it
\* records in the ledger (wf, wt) and its committed steps still to do (todo).

Job(fn, ep, sel, del, wf, wt, todo) ==
    [ fn |-> fn, ep |-> ep, sel |-> sel, del |-> del, wf |-> wf, wt |-> wt,
      todo |-> todo, rows |-> {} ]

LedgerThenInsert == << "ledger", "insert" >>

InsertThenLedger == << "insert", "ledger" >>
DeleteInsertLedger == << "delete", "insert", "ledger" >>

att_run_init(d_from, d_to) ==
    Job("init", att_ENDPOINT, d_from..d_to, None, Some(d_from), Some(d_to), InsertThenLedger)

att_run_daily(t) ==
    LET d_from == t - attendance_days_back
    IN  Job("daily", att_ENDPOINT, d_from..t, None, Some(d_from), Some(t), InsertThenLedger)

att_run_backfill(days) ==
    Job("backfill", att_ENDPOINT, days, None, Some(SetMin(days)), Some(SetMax(days)),
        InsertThenLedger)

mc_run_init(d_from, d_to) ==
    Job("init", mc_ENDPOINT, d_from..d_to, Some(<< d_from, d_to >>),
        Some(d_from), Some(d_to), DeleteInsertLedger)

mc_run_daily(t) ==
    LET d_from == t - attendance_days_back
    IN  Job("daily", mc_ENDPOINT, d_from..t, Some(<< d_from, t >>),
            Some(d_from), Some(t), DeleteInsertLedger)

mc_run_backfill(days) ==
    Job("backfill", mc_ENDPOINT, days, Some(<< SetMin(days), SetMax(days) >>),
        Some(SetMin(days)), Some(SetMax(days)), DeleteInsertLedger)

mf_run_init(d_from, d_to) ==
    Job("init", mf_ENDPOINT, d_from..d_to, None, Some(d_from), Some(d_to), InsertThenLedger)

\* no server-side date filter: everything is fetched, the ledger window is NULL
mf_run_daily(t) ==
    Job("daily", mf_ENDPOINT, AllDays, None, None, None, InsertThenLedger)

mf_run_backfill(days) ==
    Job("backfill", mf_ENDPOINT, days, None,
        IF days # {} THEN Some(SetMin(days)) ELSE None,
        IF days # {} THEN Some(SetMax(days)) ELSE None, InsertThenLedger)

\* fetch_schedule_week: the API returns the week around the requested day
WeeksOf(mondays) == UNION { week_range(m)[1]..week_range(m)[2] : m \in mondays }

sch_run_init(d_from, d_to) ==
    Job("init", sch_ENDPOINT, WeeksOf(_mondays_between(d_from, d_to)), None,
        Some(week_range(d_from)[1]), Some(week_range(d_to)[2]), InsertThenLedger)

sch_run_daily(t) ==
    Job("daily", sch_ENDPOINT, WeeksOf({ t }), None,
        Some(week_range(t)[1]), Some(week_range(t)[2]), InsertThenLedger)

sch_run_backfill(mondays) ==
    Job("backfill", sch_ENDPOINT, WeeksOf(mondays), None,
        IF mondays # {} THEN Some(SetMin(mondays)) ELSE None,
        IF mondays # {} THEN Some(SetMax(mondays)) ELSE None, InsertThenLedger)

\* ------------------------------------------------------------------------
\* Raw orchestrator: src/raw/raw_orchestrator.py.  Its state is gathered in a
\* record so that one committed step is a function of the state, and a whole
\* run is the repetition of that function.

RawState ==
    [ today |-> today, api |-> api, sync_state |-> sync_state, raw |-> raw,
      pc |-> raw_pc, mode |-> raw_mode, force |-> raw_force, rtoday |-> raw_today,
      job |-> raw_job, writes |-> raw_writes, fetched |-> fetched,
      before |-> pass_ledger ]

\* the loader calls of the orchestrator, by endpoint
DailyJob(ep, t) ==
    CASE ep = att_ENDPOINT -> att_run_daily(t)
      [] ep = mc_ENDPOINT -> mc_run_daily(t)
      [] ep = mf_ENDPOINT -> mf_run_daily(t)
      [] ep = sch_ENDPOINT -> sch_run_daily(t)

BackfillJob(ep, d_from, d_to) ==
    CASE ep = att_ENDPOINT -> att_run_backfill(_date_range(d_from, d_to))
      [] ep = mc_ENDPOINT -> mc_run_backfill(_date_range(d_from, d_to))
      [] ep = mf_ENDPOINT -> mf_run_backfill(_date_range(d_from, d_to))
      [] ep = sch_ENDPOINT -> sch_run_backfill(_mondays_between(d_from, d_to))

\* _init_if_empty: a table that has rows is skipped, whatever the ledger says
_init_if_empty(s, ep) ==
    LET d_from == s.rtoday - Max2(weekly_deep_days, 0)
        d_to == s.rtoday
    IN  IF _has_any_rows(s.raw[ep]) THEN None
        ELSE Some(CASE ep = att_ENDPOINT -> att_run_init(d_from, d_to)
                    [] ep = mc_ENDPOINT -> mc_run_init(d_from, d_to)
                    [] ep = mf_ENDPOINT -> mf_run_init(d_from, d_to)
                    [] ep = sch_ENDPOINT ->
                         sch_run_init(_monday_of(d_from), s.rtoday + schedule_days_forward))

\* _run_daily_windows_and_recovery, part 1: the four daily loads
_run_daily_windows_and_recovery(s, ep) == Some(DailyJob(ep, s.today))

\* _run_daily_windows_and_recovery, part 2: recover_days(endpoint)
recover_days(s, ep) ==
    LET last_to == _last_window_to(s.sync_state, ep)
        safety_gap == Max2(attendance_days_back, 2)
    IN  IF last_to = None THEN None
        ELSE IF Val(last_to) <= s.rtoday - (safety_gap + 1)
             THEN LET miss_from == Val(last_to) + 1
                  IN  IF _date_range(miss_from, s.rtoday) = {} THEN None
                      ELSE Some(BackfillJob(ep, miss_from, s.rtoday))
             ELSE None

\* _run_weekly_deep_if_due, once it is due: backfill of the last weekly_deep_days
_run_weekly_deep_if_due(s, ep) ==
    Some(BackfillJob(ep, s.rtoday - weekly_deep_days, s.rtoday))

\* control flow of main() between the loader calls
EnterPhase(s, phase) == [ s EXCEPT !.pc = Pc(phase, 1), !.rtoday = s.today ]
EnterDaily(s) ==
    [ EnterPhase(s, "daily") EXCEPT !.fetched = NoRows, !.before = s.sync_state ]
Finished(s) == [ s EXCEPT !.pc = Pc("done", 0) ]
EnterDeepIfDue(s, force) ==
    IF weekly_deep_days <= 0 THEN Finished(s)
    ELSE IF weekday(s.today) = 0 \/ force THEN EnterPhase(s, "deep")
    ELSE Finished(s)

AfterSnapshots(s) ==
    CASE s.mode = "init-if-empty" -> EnterPhase(s, "init")
      [] s.mode = "daily" -> EnterDaily(s)
      [] s.mode = "weekly-deep" -> EnterDeepIfDue(s, TRUE)
      [] s.mode = "auto" -> EnterPhase(s, "init")

Advance(s) ==
    IF s.pc.i < Len(RawOrder) THEN [ s EXCEPT !.pc = Pc(s.pc.phase, s.pc.i + 1) ]
    ELSE CASE s.pc.phase = "init" ->
                IF s.mode = "init-if-empty" THEN Finished(s) ELSE EnterDaily(s)
           [] s.pc.phase = "daily" -> EnterPhase(s, "recover")
           [] s.pc.phase = "recover" ->
                IF s.mode = "daily" THEN Finished(s) ELSE EnterDeepIfDue(s, s.force)
           [] s.pc.phase = "deep" -> Finished(s)

\* one committed step of the loader call in progress; the call returns after
\* its ledger write
LoaderStep(s) ==
    LET j == Val(s.job)
        stage == Head(j.todo)
        rest == [ j EXCEPT !.todo = Tail(j.todo) ]
        table == s.raw[j.ep]
        del == delete_window(table, Val(j.del)[1], Val(j.del)[2])
        ins == insert_rows(j.ep, table, j.rows)
        after ==
            CASE stage = "delete" ->
                    [ s EXCEPT !.raw[j.ep] = del.table, !.writes = @ + del.rowcount ]
              [] stage = "insert" ->
                    [ s EXCEPT !.raw[j.ep] = ins.table, !.writes = @ + ins.rowcount ]
              [] stage = "ledger" ->
                    [ s EXCEPT !.sync_state =
                        upsert_sync_state(s.sync_state, j.ep, j.wf, j.wt, s.today) ]
    IN  IF rest.todo = << >> THEN Advance([ after EXCEPT !.job = None ])
        ELSE [ after EXCEPT !.job = Some(rest) ]

\* a loader is called (it fetches and makes its first commit) or is skipped
Call(s, plan) ==
    IF plan = None THEN Advance(s)
    ELSE LET j == Val(plan)
             rows == { r \in s.api[j.ep] : r.d \in j.sel }
         IN  LoaderStep([ s EXCEPT !.job = Some([ j EXCEPT !.rows = rows ]),
                                   !.fetched[j.ep] = @ \cup j.sel ])

\* the step the orchestrator takes next
RawStep(s) ==
    LET ep == RawOrder[s.pc.i]
    IN  IF s.job # None THEN LoaderStep(s)
        ELSE CASE s.pc.phase = "snapshots" -> AfterSnapshots(s)
               [] s.pc.phase = "init" -> Call(s, _init_if_empty(s, ep))
               [] s.pc.phase = "daily" -> Call(s, _run_daily_windows_and_recovery(s, ep))
               [] s.pc.phase = "recover" -> Call(s, recover_days(s, ep))
               [] s.pc.phase = "deep" -> Call(s, _run_weekly_deep_if_due(s, ep))

\* the loader call the orchestrator makes next when no loader is in progress
PlannedCall(s) ==
    LET ep == RawOrder[s.pc.i]
    IN  CASE s.pc.phase = "init" -> _init_if_empty(s, ep)
          [] s.pc.phase = "daily" -> _run_daily_windows_and_recovery(s, ep)
          [] s.pc.phase = "recover" -> recover_days(s, ep)
          [] s.pc.phase = "deep" -> _run_weekly_deep_if_due(s, ep)
          [] OTHER -> None

\* a loader raises: no function of the orchestrator catches the exception,
\* main() ends at the endpoint it was loading
RaiseStep(s) == [ s EXCEPT !.pc = Pc("failed", s.pc.i), !.job = None ]

\* a run that nothing interrupts
RECURSIVE RunRaw(_)
RunRaw(s) == IF s.pc.phase = "done" THEN s ELSE RunRaw(RawStep(s))

\* ------------------------------------------------------------------------
\* Actions of the raw orchestrator

RawModes == { "auto", "daily", "weekly-deep", "init-if-empty" }

\* the command lines of the raw orchestrator
RawCommandLines ==
    { << m, FALSE >> : m \in RawModes } \cup { << "auto", TRUE >> }

ApplyRaw(n) ==
    /\ sync_state' = n.sync_state
    /\ raw' = n.raw
    /\ raw_pc' = n.pc
    /\ raw_today' = n.rtoday
    /\ raw_job' = n.job
    /\ raw_writes' = n.writes
    /\ fetched' = n.fetched
    /\ pass_ledger' = n.before
    /\ UNCHANGED << today, api, core, raw_mode, raw_force, raw_runs, crash_log >>
    /\ UNCHANGED << mailVars, groupVars, coreVars >>

\* main(): the run takes advisory lock 1001 and starts
raw_main(mode, force) ==
    /\ raw_pc = Pc("idle", 0)
    /\ raw_pc' = Pc("snapshots", 0)
    /\ raw_mode' = mode
    /\ raw_force' = force
    /\ raw_writes' = 0
    /\ raw_runs' = raw_runs + 1
    /\ UNCHANGED << dbVars, raw_today, raw_job, fetched, pass_ledger, crash_log >>
    /\ UNCHANGED << mailVars, groupVars, coreVars >>

_run_snapshots_daily ==
    /\ raw_pc.phase = "snapshots"
    /\ ApplyRaw(RawStep(RawState))

RawInitIfEmpty ==
    /\ raw_pc.phase = "init"
    /\ raw_job = None
    /\ ApplyRaw(RawStep(RawState))

RawDailyWindows ==
    /\ raw_pc.phase = "daily"
    /\ raw_job = None
    /\ ApplyRaw(RawStep(RawState))

RawRecovery ==
    /\ raw_pc.phase = "recover"
    /\ raw_job = None
    /\ ApplyRaw(RawStep(RawState))

RawWeeklyDeep ==
    /\ raw_pc.phase = "deep"
    /\ raw_job = None
    /\ ApplyRaw(RawStep(RawState))

\* the loader in progress makes its next commit
RawLoaderCommit ==
    /\ raw_job # None
    /\ ApplyRaw(RawStep(RawState))

\* main() returns, or ends with the exception of a loader: the lock is
\* released and the locals are gone
RawExit ==
    /\ raw_pc.phase \in { "done", "failed" }
    /\ raw_pc' = Pc("idle", 0)
    /\ raw_mode' = "auto"
    /\ raw_force' = FALSE
    /\ raw_today' = 0
    /\ raw_job' = None
    /\ raw_writes' = 0
    /\ fetched' = NoRows
    /\ pass_ledger' = NoLedger
    /\ UNCHANGED << dbVars, raw_runs, crash_log >>
    /\ UNCHANGED << mailVars, groupVars, coreVars >>

\* a whole run of main() that nothing interleaves with, as one step
RawRun(mode, force) ==
    /\ raw_pc = Pc("idle", 0)
    /\ LET start == [ RawState EXCEPT !.pc = Pc("snapshots", 0), !.mode = mode,
                                      !.force = force, !.writes = 0 ]
           end == RunRaw(start)
       IN  /\ sync_state' = end.sync_state
           /\ raw' = end.raw
    /\ UNCHANGED << today, api, core >>
    /\ UNCHANGED << mailVars, groupVars, rawVars, coreVars >>

RawRunSteps ==
    \/ _run_snapshots_daily
    \/ RawInitIfEmpty
    \/ RawDailyWindows
    \/ RawRecovery
    \/ RawWeeklyDeep
    \/ RawLoaderCommit
    \/ RawExit

\* ------------------------------------------------------------------------
\* The raw orchestrator started on a database that an earlier pass left behind

\* upstream: one record per listed day at every endpoint; the attendance
\* record of a day refers to the lesson of that day
Upstream(days) ==
    [ ep \in RAW_ENDPOINTS |->
        { [ id |-> d, d |-> d, hash |-> 1, lesson_id |-> d ] : d \in days } ]

\* the loader calls of an earlier complete pass on day t: none, the daily
\* loads, or the weekly deep refresh
PrevJob(prev, ep, t) ==
    IF prev = "daily" THEN DailyJob(ep, t)
    ELSE BackfillJob(ep, t - weekly_deep_days, t)

LedgerAfter(prev, t) ==
    [ ep \in Endpoints |->
        IF ep \notin RAW_ENDPOINTS \/ prev = "none" THEN None
        ELSE Some(LedgerRow(PrevJob(prev, ep, t).wf, PrevJob(prev, ep, t).wt, t)) ]

RawAfter(prev, t, upstream) ==
    [ ep \in RAW_ENDPOINTS |->
        IF prev = "none" THEN {}
        ELSE { r \in upstream[ep] : r.d \in PrevJob(prev, ep, t).sel /\ r.d <= t } ]

StartDays == 0..6

InitRaw ==
    /\ MailIdle
    /\ GroupsEmpty
    /\ merge_gap_days = DefaultMergeGapDays
    /\ today \in StartDays
    /\ \E days \in SUBSET ((today - MaxBack)..today) : api = Upstream(days)
    /\ \E lag \in 0..MaxLag, prev \in { "none", "daily", "deep" } :
        /\ sync_state = LedgerAfter(prev, today - lag)
        /\ raw = RawAfter(prev, today - lag, api)
    /\ core = NoCore
    /\ RawIdle
    /\ CoreIdle

NextRaw ==
    \/ \E cl \in RawCommandLines : raw_runs < MaxRuns /\ raw_main(cl[1], cl[2])
    \/ RawRunSteps

SpecRaw == InitRaw /\ [][NextRaw]_vars

\* the same runs with an upstream or a database that can fail: the fetch of
\* the loader called next raises, or the INSERT of the loader in progress does
RawRaise ==
    /\ raw_pc.phase \in { "init", "daily", "recover", "deep" }
    /\ IF raw_job = None THEN PlannedCall(RawState) # None
       ELSE Head(Val(raw_job).todo) = "insert"
    /\ ApplyRaw(RaiseStep(RawState))

NextFail ==
    \/ NextRaw
    \/ RawRaise

SpecFail == InitRaw /\ [][NextFail]_vars

\* ------------------------------------------------------------------------
\* Core checkpoint and the raw windows the core reads: src/core/core_common.py,
\* src/core/core_etl.py

COALESCE(o, v) == IF o = None THEN v ELSE Val(o)

validate_window_ignored(d_from, d_to) == TRUE

\* raise ValueError unless d_from <= d_to
validate_window_or_throw(d_from, d_to) == d_from <= d_to

get_core_checkpoint(ledger) ==
    IF ledger[CORE_ORCHESTRATOR_ENDPOINT] = None THEN None
    ELSE Val(ledger[CORE_ORCHESTRATOR_ENDPOINT]).window_to

set_core_checkpoint_overwrite(ledger, window_to, now) ==
    upsert_sync_state(ledger, CORE_ORCHESTRATOR_ENDPOINT, Some(window_to), Some(window_to), now)

\* INSERT (endpoint, window_to, window_to, now()) ON CONFLICT (endpoint) DO UPDATE
\*   SET window_from = LEAST(COALESCE(old, new), new),
\*       window_to = GREATEST(COALESCE(old, new), new)
set_core_checkpoint(ledger, window_to, now) ==
    LET old == ledger[CORE_ORCHESTRATOR_ENDPOINT]
    IN  IF old = None
        THEN upsert_sync_state(ledger, CORE_ORCHESTRATOR_ENDPOINT,
                               Some(window_to), Some(window_to), now)
        ELSE upsert_sync_state(ledger, CORE_ORCHESTRATOR_ENDPOINT,
                 Some(Min2(COALESCE(Val(old).window_from, window_to), window_to)),
                 Some(Max2(COALESCE(Val(old).window_to, window_to), window_to)), now)

clamp_checkpoint_kept(last_cp, t) == last_cp

\* if last_cp and last_cp > today: last_cp = today
clamp_checkpoint(last_cp, t) ==
    IF last_cp # None /\ Val(last_cp) > t THEN Some(t) ELSE last_cp

\* endpoint -> (window_from, window_to) of the raw ledger rows written after
\* `since`; a sync timestamp is later than midnight of `since` iff its day is
\* `since` or later.  Rows with a NULL bound or from > to are dropped.
_read_recent_raw_windows(ledger, since) ==
    LET recent == { ep \in RAW_ENDPOINTS :
                      /\ ledger[ep] # None
                      /\ since = None \/ Val(ledger[ep]).last_successful_sync_at >= Val(since) }
        kept == { ep \in recent :
                    /\ Val(ledger[ep]).window_from # None
                    /\ Val(ledger[ep]).window_to # None
                    /\ Val(Val(ledger[ep]).window_from) <= Val(Val(ledger[ep]).window_to) }
    IN  [ ep \in kept |->
            << Val(Val(ledger[ep]).window_from), Val(Val(ledger[ep]).window_to) >> ]

_clamp_to_today_off(f, t, t_today) == << f, t >>

_clamp_to_today(f, t, t_today) == << f, IF t <= t_today THEN t ELSE t_today >>

\* ------------------------------------------------------------------------
\* Core transforms: src/core/core_load_schedule.py, core_load_attendance.py,
\* core_load_marks.py.  s is the state of the core orchestrator (CoreState).

Plan(mode, d_from, d_to) == [ mode |-> mode, d_from |-> d_from, d_to |-> d_to ]

\* WHERE date BETWEEN d_from AND d_to, or no WHERE clause without a window
InWindow(rows, w) ==
    IF w = None THEN rows
    ELSE { r \in rows : Val(w)[1] <= r.d /\ r.d <= Val(w)[2] }

\* INSERT ... ON CONFLICT (id) DO UPDATE SET ...: every source row is written
UpsertAll(table, rows) ==
    [ table |-> { x \in table : ~ \E r \in rows : r.id = x.id } \cup rows,
      rowcount |-> Cardinality(rows) ]

\* run_schedule: raw.schedule_lessons -> core.lesson, one commit
run_schedule(s, p) ==
    LET src == InWindow(s.raw[sch_ENDPOINT], Some(<< p.d_from, p.d_to >>))
        up == UpsertAll(s.core["lesson"], src)
    IN  [ s EXCEPT !.core["lesson"] = up.table, !.writes = @ + up.rowcount ]

\* compute_daily_window(days_back = 14)
compute_daily_window(t) == << t - (14 - 1), t >>

_window_for_mode(mode, d_from, d_to, t) ==
    IF mode = "backfill" THEN Some(<< d_from, d_to >>)
    ELSE IF mode = "daily" THEN Some(compute_daily_window(t))
    ELSE None

\* _upsert_attendance: raw.attendance -> core.attendance_event; only rows whose
\* lesson is in core.lesson; ON CONFLICT (attendance_id) DO UPDATE unconditionally
_upsert_attendance(s, w) ==
    LET src == InWindow(s.raw[att_ENDPOINT], w)
        valid == { r \in src : \E l \in s.core["lesson"] : l.id = r.lesson_id }
        up == UpsertAll(s.core["attendance_event"], valid)
    IN  [ s EXCEPT !.core["attendance_event"] = up.table, !.writes = @ + up.rowcount ]

run_attendance(s, p) ==
    _upsert_attendance(s, _window_for_mode(p.mode, p.d_from, p.d_to, s.today))

\* run_attendance, after its commit: the ledger row "core_attendance"
run_attendance_ledger(s, p) ==
    LET w == _window_for_mode(p.mode, p.d_from, p.d_to, s.today)
    IN  [ s EXCEPT !.sync_state =
            upsert_sync_state(s.sync_state, core_attendance_ENDPOINT,
                IF w = None THEN None ELSE Some(Val(w)[1]),
                IF w = None THEN None ELSE Some(Val(w)[2]), s.today) ]

\* run_marks: _window_for_daily() in mode daily, else the window passed
_window_for_marks(mode, d_from, d_to, t) ==
    IF mode = "daily" THEN << t - Max2(attendance_days_back, 0), t >>
    ELSE << d_from, d_to >>

\* run_marks: DELETE core.mark_current in the window, re-insert it from
\* raw.marks_current (DO UPDATE only where a column differs), upsert
\* core.mark_final unconditionally; one commit
run_marks(s, p) ==
    LET w == Some(_window_for_marks(p.mode, p.d_from, p.d_to, s.today))
        del == delete_window(s.core["mark_current"], Val(w)[1], Val(w)[2])
        src == InWindow(s.raw[mc_ENDPOINT], w)
        written == src \ del.table
        current == { x \in del.table : ~ \E r \in written : r.id = x.id } \cup written
        fin == UpsertAll(s.core["mark_final"], InWindow(s.raw[mf_ENDPOINT], w))
    IN  [ s EXCEPT !.core["mark_current"] = current,
                   !.core["mark_final"] = fin.table,
                   !.writes = @ + del.rowcount + Cardinality(written) + fin.rowcount ]

\* run_marks, after its commit: the ledger row "core_marks"
run_marks_ledger(s, p) ==
    LET w == _window_for_marks(p.mode, p.d_from, p.d_to, s.today)
    IN  [ s EXCEPT !.sync_state =
            upsert_sync_state(s.sync_state, core_marks_ENDPOINT,
                              Some(w[1]), Some(w[2]), s.today) ]

\* ------------------------------------------------------------------------
\* Core orchestrator: src/core/core_etl.py.  A pass is one of its functions in
\* progress: its locals and its committed steps still to do.

CoreState ==
    [ today |-> today, sync_state |-> sync_state, raw |-> raw, core |-> core,
      pc |-> core_pc, args |-> core_args, pass |-> core_pass, writes |-> core_writes ]

NoChanged == [ ep \in {} |-> << >> ]

Pass(fn, t, read, last_cp, changed, validate, sch, att, marks, cp, todo) ==
    [ fn |-> fn, today |-> t, read |-> read, last_cp |-> last_cp, changed |-> changed,
      validate |-> validate, sch |-> sch, att |-> att, marks |-> marks, cp |-> cp,
      todo |-> todo ]

GroupsBeforeMarks == << "refs", "people", "classes", "schedule", "attendance",
                        "attendance_ledger", "groups", "marks", "marks_ledger",
                        "checkpoint" >>

\* the calls of a pass in the order of the code: the snapshots (run_refs,
\* run_people, run_classes), the windowed transforms, run_groups, the checkpoint
FullPass == << "refs", "people", "classes", "schedule", "attendance",
               "attendance_ledger", "marks", "marks_ledger", "groups", "checkpoint" >>

SnapshotsNoCheckpoint == << "refs", "people", "classes", "groups" >>

\* core_run_auto when no raw endpoint changed: snapshots, run_groups,
\* set_core_checkpoint(today), return
SnapshotsOnly == << "refs", "people", "classes", "groups", "checkpoint" >>

max_to_unclamped(changed, t) == SetMax({ changed[ep][2] : ep \in DOMAIN changed })

\* max_to = max of the clamped window_to of the changed endpoints;
\* safe_max_to = min(max_to, today)
safe_max_to(changed, t) ==
    Min2(SetMax({ _clamp_to_today(changed[ep][1], changed[ep][2], t)[2] :
                    ep \in DOMAIN changed }), t)

InitPass(fn, t, d_from, d_to) ==
    Pass(fn, t, None, None, NoChanged, FALSE,
         Some(Plan("init", _monday_of(d_from), d_to)),
         Some(Plan("init", d_from, d_to)),
         Some(Plan("init", d_from, d_to)), d_to, FullPass)

BackfillPass(fn, t, validate, d_from, d_to) ==
    Pass(fn, t, None, None, NoChanged, validate,
         Some(Plan("backfill", d_from, d_to)),
         Some(Plan("backfill", d_from, d_to)),
         Some(Plan("backfill", d_from, d_to)), d_to, FullPass)

core_init_if_empty(s) ==
    InitPass("core_init_if_empty", s.today, s.today - Max2(weekly_deep_days, 0), s.today)

\* main(), --mode init: the window given, or the default when it is incomplete
legacy_init(s) ==
    IF s.args.d_from # None /\ s.args.d_to # None
    THEN InitPass("legacy_init", s.today, Val(s.args.d_from), Val(s.args.d_to))
    ELSE InitPass("legacy_init", s.today, s.today - Max2(weekly_deep_days, 0), s.today)

\* main(), --mode backfill: the window was validated before the lock
legacy_backfill(s) ==
    BackfillPass("legacy_backfill", s.today, FALSE, Val(s.args.d_from), Val(s.args.d_to))

core_weekly_deep(s) ==
    BackfillPass("core_weekly_deep", s.today, TRUE, s.today - weekly_deep_days, s.today)

core_run_auto(s) ==
    LET t == s.today
        read == get_core_checkpoint(s.sync_state)
        last_cp == clamp_checkpoint(read, t)
        changed == _read_recent_raw_windows(s.sync_state, last_cp)
        eps == DOMAIN changed
        Clamped(ep) == _clamp_to_today(changed[ep][1], changed[ep][2], t)
        PlanOf(ep) ==
            IF ep \in eps THEN Some(Plan("backfill", Clamped(ep)[1], Clamped(ep)[2]))
            ELSE None
        markEps == eps \cap { mc_ENDPOINT, mf_ENDPOINT }
        marksW == _clamp_to_today(SetMin({ changed[ep][1] : ep \in markEps }),
                                  SetMax({ changed[ep][2] : ep \in markEps }), t)
        marks == IF markEps = {} THEN None
                 ELSE Some(Plan("backfill", marksW[1], marksW[2]))
        Needed(st) ==
            CASE st = "schedule" -> sch_ENDPOINT \in eps
              [] st \in { "attendance", "attendance_ledger" } -> att_ENDPOINT \in eps
              [] st \in { "marks", "marks_ledger" } -> markEps # {}
              [] OTHER -> TRUE
    IN  IF eps = {}
        THEN Pass("core_run_auto", t, read, last_cp, changed, TRUE, None, None, None, t,
                  SnapshotsOnly)
        ELSE Pass("core_run_auto", t, read, last_cp, changed, TRUE,
                  PlanOf(sch_ENDPOINT), PlanOf(att_ENDPOINT), marks,
                  safe_max_to(changed, t),
                  SelectSeq(FullPass, Needed))

core_empty(s) ==
    \/ ~ _has_any_rows(s.core["attendance_event"])
    \/ ~ _has_any_rows(s.core["lesson"])
    \/ ~ _has_any_rows(s.core["mark_current"])

Enter(s, phase, pass) == [ s EXCEPT !.pc = phase, !.pass = Some(pass) ]
CoreDone(s) == [ s EXCEPT !.pc = "done", !.pass = None ]
CoreFail_swallowed(s) == s
CoreFail(s) == [ s EXCEPT !.pc = "failed", !.pass = None ]

EnterWeeklyDeep_any_day(s) == Enter(s, "deep", core_weekly_deep(s))

\* core_weekly_deep(force): skipped unless it is Monday or forced
EnterWeeklyDeep(s) ==
    IF weekly_deep_days <= 0 THEN CoreDone(s)
    ELSE IF ~ (weekday(s.today) = 0 \/ s.args.force) THEN CoreDone(s)
    ELSE Enter(s, "deep", core_weekly_deep(s))

\* main() under the lock, up to the first function it calls
Dispatch(s) ==
    CASE s.args.mode = "init" -> Enter(s, "legacy", legacy_init(s))
      [] s.args.mode = "backfill" -> Enter(s, "legacy", legacy_backfill(s))
      [] s.args.mode \in { "auto", "init-if-empty" } ->
            IF core_empty(s) THEN Enter(s, "init", core_init_if_empty(s))
            ELSE IF s.args.mode = "auto" THEN Enter(s, "auto", core_run_auto(s))
            ELSE CoreDone(s)
      [] s.args.mode = "daily" -> Enter(s, "auto", core_run_auto(s))
      [] s.args.mode = "weekly-deep" -> EnterWeeklyDeep(s)

\* main() after a function has returned
AfterPass(s) ==
    CASE s.pc = "legacy" -> CoreDone(s)
      [] s.pc = "init" ->
            IF s.args.mode = "init-if-empty" THEN CoreDone(s)
            ELSE Enter(s, "auto", core_run_auto(s))
      [] s.pc = "auto" ->
            IF s.args.mode = "daily" THEN CoreDone(s) ELSE EnterWeeklyDeep(s)
      [] s.pc = "deep" -> CoreDone(s)

\* one committed step of the pass in progress
PassStep(s) ==
    LET p == Val(s.pass)
        st == Head(p.todo)
        rest == [ p EXCEPT !.todo = Tail(p.todo) ]
        Bad(plan) == p.validate /\ ~ validate_window_or_throw(plan.d_from, plan.d_to)
        after ==
            CASE st \in { "refs", "people", "classes" } -> s
              [] st = "schedule" ->
                    IF Bad(Val(p.sch)) THEN CoreFail(s) ELSE run_schedule(s, Val(p.sch))
              [] st = "attendance" ->
                    IF Bad(Val(p.att)) THEN CoreFail(s) ELSE run_attendance(s, Val(p.att))
              [] st = "attendance_ledger" -> run_attendance_ledger(s, Val(p.att))
              [] st = "marks" ->
                    IF Bad(Val(p.marks)) THEN CoreFail(s) ELSE run_marks(s, Val(p.marks))
              [] st = "marks_ledger" -> run_marks_ledger(s, Val(p.marks))
              [] st = "groups" -> s
              [] st = "checkpoint" ->
                    [ s EXCEPT !.sync_state = set_core_checkpoint(s.sync_state, p.cp, s.today) ]
    IN  IF after.pc = "failed" THEN after
        ELSE IF rest.todo = << >> THEN AfterPass([ after EXCEPT !.pass = None ])
        ELSE [ after EXCEPT !.pass = Some(rest) ]

CoreStep(s) == IF s.pass # None THEN PassStep(s) ELSE Dispatch(s)

\* ------------------------------------------------------------------------
\* Actions of the core orchestrator

ApplyCore(n) ==
    /\ sync_state' = n.sync_state
    /\ core' = n.core
    /\ core_pc' = n.pc
    /\ core_pass' = n.pass
    /\ core_writes' = n.writes
    /\ UNCHANGED << today, api, raw, core_args, core_runs, lockVars >>
    /\ UNCHANGED << mailVars, groupVars, rawVars >>

\* main(): arguments are parsed; --mode backfill without both dates or with
\* d_from > d_to exits before the lock; otherwise lock 1002 is taken
core_main(args) ==
    /\ core_pc = "idle"
    /\ core_args' = args
    /\ core_pc' =
         IF /\ args.mode = "backfill"
            /\ \/ args.d_from = None
               \/ args.d_to = None
               \/ ~ validate_window_or_throw(Val(args.d_from), Val(args.d_to))
         THEN "failed" ELSE "dispatch"
    /\ core_writes' = 0
    /\ UNCHANGED << dbVars, core_pass, lockVars >>
    /\ UNCHANGED << mailVars, groupVars, rawVars >>

CoreDispatch ==
    /\ core_pc = "dispatch"
    /\ ApplyCore(CoreStep(CoreState))

\* run_refs, run_people or run_classes refreshes its snapshot entities
CoreRunSnapshots ==
    /\ core_pass # None
    /\ Head(Val(core_pass).todo) \in { "refs", "people", "classes" }
    /\ ApplyCore(CoreStep(CoreState))

\* run_schedule, run_attendance or run_marks commits
CoreTransform ==
    /\ core_pass # None
    /\ Head(Val(core_pass).todo) \in { "schedule", "attendance", "marks" }
    /\ ApplyCore(CoreStep(CoreState))

\* run_attendance or run_marks records its window in the ledger
CoreLedgerWrite ==
    /\ core_pass # None
    /\ Head(Val(core_pass).todo) \in { "attendance_ledger", "marks_ledger" }
    /\ ApplyCore(CoreStep(CoreState))

CoreRunGroups ==
    /\ core_pass # None
    /\ Head(Val(core_pass).todo) = "groups"
    /\ ApplyCore(CoreStep(CoreState))

CoreSetCheckpoint ==
    /\ core_pass # None
    /\ Head(Val(core_pass).todo) = "checkpoint"
    /\ ApplyCore(CoreStep(CoreState))

\* main() returns or raises: the lock is released and the locals are gone
CoreExit ==
    /\ core_pc \in { "done", "failed" }
    /\ core_pc' = "idle"
    /\ core_args' = Args("auto", FALSE, None, None)
    /\ core_pass' = None
    /\ core_writes' = 0
    /\ UNCHANGED << dbVars, core_runs, lockVars >>
    /\ UNCHANGED << mailVars, groupVars, rawVars >>

CoreRunSteps ==
    \/ CoreDispatch
    \/ CoreRunSnapshots
    \/ CoreTransform
    \/ CoreLedgerWrite
    \/ CoreRunGroups
    \/ CoreSetCheckpoint
    \/ CoreExit

\* the command lines of the core orchestrator on day t
CoreCommandLines(t) ==
    { Args(m, FALSE, None, None) : m \in { "auto", "init-if-empty", "daily", "weekly-deep" } }
    \cup { Args("weekly-deep", TRUE, None, None) }
    \cup { Args(m, FALSE, w[1], w[2]) :
             m \in { "init", "backfill" },
             w \in { << None, None >>, << Some(t), Some(t - 1) >>, << Some(t), Some(t + 1) >> } }
    \cup { Args("backfill", FALSE, w[1], w[2]) :
             w \in { << Some(t), None >>, << None, Some(t) >> } }

\* midnight passes, between two runs of the core orchestrator
AdvanceDay ==
    /\ today < MaxDay
    /\ core_pc = "idle"
    /\ today' = today + 1
    /\ UNCHANGED << api, sync_state, raw, core >>
    /\ UNCHANGED << mailVars, groupVars, rawVars, coreVars >>

\* ------------------------------------------------------------------------
\* Both orchestrators and the calendar, from an empty database

Init ==
    /\ MailIdle
    /\ GroupsEmpty
    /\ merge_gap_days = DefaultMergeGapDays
    /\ today = 0
    /\ api = Upstream({ 0 })
    /\ sync_state = NoLedger
    /\ raw = NoRows
    /\ core = NoCore
    /\ RawIdle
    /\ CoreIdle

Next ==
    \/ \E mode \in { "auto", "daily" } : RawRun(mode, FALSE)
    \/ \E args \in CoreCommandLines(today) : core_main(args) /\ UNCHANGED core_runs
    \/ CoreRunSteps
    \/ AdvanceDay

Spec == Init /\ [][Next]_vars

\* ------------------------------------------------------------------------
\* The daily pipeline run DailyRuns times on one day: the raw orchestrator in
\* mode daily, then the core orchestrator in mode daily, upstream unchanged

InitDaily ==
    /\ MailIdle
    /\ GroupsEmpty
    /\ merge_gap_days = DefaultMergeGapDays
    /\ today \in StartDays
    /\ \E days \in SUBSET ((today - attendance_days_back)..today) : api = Upstream(days)
    /\ sync_state = NoLedger
    /\ raw = NoRows
    /\ core = NoCore
    /\ RawIdle
    /\ CoreIdle

PipelineIdle == raw_pc = Pc("idle", 0) /\ core_pc = "idle"

DailyRawStart ==
    /\ PipelineIdle
    /\ raw_runs = core_runs
    /\ raw_runs < DailyRuns
    /\ raw_main("daily", FALSE)

DailyCoreStart ==
    /\ PipelineIdle
    /\ core_runs < raw_runs
    /\ core_main(Args("daily", FALSE, None, None))
    /\ core_runs' = core_runs + 1

NextDaily ==
    \/ DailyRawStart
    \/ _run_snapshots_daily
    \/ RawDailyWindows
    \/ RawRecovery
    \/ RawLoaderCommit
    \/ RawExit
    \/ DailyCoreStart
    \/ CoreRunSteps

SpecDaily == InitDaily /\ [][NextDaily]_vars

\* ------------------------------------------------------------------------
\* A run of the raw orchestrator that is killed between two commits, and the
\* same command line run again

\* the process dies: its session ends, which releases the advisory lock, and
\* its locals are gone; what it committed stays
RawKill ==
    /\ raw_pc.phase \notin { "idle", "done" }
    /\ ~ crash_log.killed
    /\ crash_log' = [ crash_log EXCEPT !.killed = TRUE ]
    /\ raw_pc' = Pc("idle", 0)
    /\ raw_mode' = "auto"
    /\ raw_force' = FALSE
    /\ raw_today' = 0
    /\ raw_job' = None
    /\ raw_writes' = 0
    /\ fetched' = NoRows
    /\ pass_ledger' = NoLedger
    /\ UNCHANGED << dbVars, raw_runs >>
    /\ UNCHANGED << mailVars, groupVars, coreVars >>

\* the database after a run of command line (mode, force) that nothing interrupts
Uninterrupted(mode, force) ==
    LET end == RunRaw([ RawState EXCEPT !.pc = Pc("snapshots", 0), !.mode = mode,
                                        !.force = force, !.writes = 0 ])
    IN  [ sync_state |-> end.sync_state, raw |-> end.raw ]

InitCrash ==
    /\ MailIdle
    /\ GroupsEmpty
    /\ merge_gap_days = DefaultMergeGapDays
    /\ today \in StartDays
    /\ \E days \in SUBSET ((today - MaxBack)..today) : api = Upstream(days)
    /\ \E prev \in { "none", "daily", "deep" } :
        /\ sync_state = LedgerAfter(prev, today - 1)
        /\ raw = RawAfter(prev, today - 1, api)
    /\ core = NoCore
    /\ raw_pc = Pc("idle", 0)
    /\ raw_mode = "auto"
    /\ raw_force = FALSE
    /\ raw_today = 0
    /\ raw_job = None
    /\ raw_writes = 0
    /\ raw_runs = 0
    /\ fetched = NoRows
    /\ pass_ledger = NoLedger
    /\ \E cl \in RawCommandLines :
        crash_log = [ mode |-> cl[1], force |-> cl[2], killed |-> FALSE,
                      expected |-> Uninterrupted(cl[1], cl[2]) ]
    /\ CoreIdle

\* the command line is run, and run again after a kill
CrashStart ==
    /\ raw_runs = 0 \/ (crash_log.killed /\ raw_runs = 1)
    /\ raw_main(crash_log.mode, crash_log.force)

NextCrash ==
    \/ CrashStart
    \/ RawRunSteps
    \/ RawKill

SpecCrash == InitCrash /\ [][NextCrash]_vars

\* ------------------------------------------------------------------------
\* Processes that invoke an orchestrator at the same time: src/db.py,
\* advisory_lock(lock_key, wait).  A process has its own database session.

\* SELECT pg_advisory_lock(key) / pg_try_advisory_lock(key): granted to a
\* session when no session holds the key
pg_advisory_lock_shared(holder, key, p) == TRUE

pg_advisory_lock(holder, key, p) == holder[key] = None

\* SELECT pg_advisory_unlock(key): releases the key if this session holds it
pg_advisory_unlock(holder, key, p) ==
    IF holder[key] = Some(p) THEN [ holder EXCEPT ![key] = None ] ELSE holder

\* main() enters `with advisory_lock(key, wait)`: the lock is granted and the
\* body starts, or the session waits, or (wait = False) the try is refused,
\* RuntimeError is raised and the finally clause unlocks
Invoke(p, key, wait) ==
    /\ session[p].pc = "idle"
    /\ IF pg_advisory_lock(lock_holder, key, p)
       THEN /\ lock_holder' = [ lock_holder EXCEPT ![key] = Some(p) ]
            /\ session' = [ session EXCEPT ![p] = Session("body", key, wait, 0) ]
       ELSE IF wait
            THEN /\ session' = [ session EXCEPT ![p] = Session("blocked", key, wait, 0) ]
                 /\ UNCHANGED lock_holder
            ELSE /\ session' = [ session EXCEPT ![p] = Session("refused", key, wait, 0) ]
                 /\ lock_holder' = pg_advisory_unlock(lock_holder, key, p)
    /\ UNCHANGED << mailVars, groupVars, dbVars, rawVars >>
    /\ UNCHANGED << core_pc, core_args, core_pass, core_writes, core_runs >>

\* pg_advisory_lock returns in a session that was waiting
Granted(p) ==
    /\ session[p].pc = "blocked"
    /\ pg_advisory_lock(lock_holder, session[p].key, p)
    /\ lock_holder' = [ lock_holder EXCEPT ![session[p].key] = Some(p) ]
    /\ session' = [ session EXCEPT ![p].pc = "body" ]
    /\ UNCHANGED << mailVars, groupVars, dbVars, rawVars >>
    /\ UNCHANGED << core_pc, core_args, core_pass, core_writes, core_runs >>

\* one step of the guarded body: a read or a write of the ledger or a table
BodyStep(p) ==
    /\ session[p].pc = "body"
    /\ session[p].steps < MaxSteps
    /\ session' = [ session EXCEPT ![p].steps = @ + 1 ]
    /\ UNCHANGED lock_holder
    /\ UNCHANGED << mailVars, groupVars, dbVars, rawVars >>
    /\ UNCHANGED << core_pc, core_args, core_pass, core_writes, core_runs >>

\* the body returns or raises: finally pg_advisory_unlock, then conn.close();
\* also the end of a process whose try was refused
Release(p) ==
    /\ session[p].pc \in { "body", "refused" }
    /\ lock_holder' = pg_advisory_unlock(lock_holder, session[p].key, p)
    /\ session' = [ session EXCEPT ![p] = NoSessions[p] ]
    /\ UNCHANGED << mailVars, groupVars, dbVars, rawVars >>
    /\ UNCHANGED << core_pc, core_args, core_pass, core_writes, core_runs >>

\* the process is killed: the server drops its session and with it the lock
\* it holds or its place in the queue
SessionKill(p) ==
    /\ session[p].pc \in { "body", "blocked" }
    /\ lock_holder' = pg_advisory_unlock(lock_holder, session[p].key, p)
    /\ session' = [ session EXCEPT ![p] = NoSessions[p] ]
    /\ UNCHANGED << mailVars, groupVars, dbVars, rawVars >>
    /\ UNCHANGED << core_pc, core_args, core_pass, core_writes, core_runs >>

InitLock ==
    /\ MailIdle
    /\ GroupsEmpty
    /\ merge_gap_days = DefaultMergeGapDays
    /\ EtlIdle

NextLock ==
    \E p \in Procs :
        \/ \E key \in LockKeys, wait \in BOOLEAN : Invoke(p, key, wait)
        \/ Granted(p)
        \/ BodyStep(p)
        \/ Release(p)
        \/ SessionKill(p)

SpecLock == InitLock /\ [][NextLock]_vars

\* ------------------------------------------------------------------------
\* Claims about the interval reconstruction (checked under SpecGroups)

\* The observation dates of a pair: what the base CTEs select for it.
ObservedStaff(k) ==
    { r.d : r \in { x \in BagToSet(lesson_facts) :
                      << x.group_id, x.staff_id >> = k /\ ~x.is_replacement } }

ObservedStudents(k) ==
    { r.d : r \in { x \in BagToSet(attendance_facts) \cup BagToSet(mark_facts) :
                      << x.group_id, x.student_id >> = k } }

IntervalsOf(table, k) == { iv \in table : iv.k = k }

Covering(table, k, d) ==
    { iv \in IntervalsOf(table, k) : iv.valid_from <= d /\ d <= iv.valid_to }

NonOverlapping(table) ==
    \A iv1 \in table, iv2 \in table :
        (iv1.k = iv2.k /\ iv1 # iv2) =>
            (iv1.valid_to < iv2.valid_from \/ iv2.valid_to < iv1.valid_from)

\* C5: every observation date of a pair lies in exactly one interval rebuilt for
\* that pair, and the intervals of one pair do not overlap (staff and students).
C5_GapMergeCoverage ==
    groups_pc = "built" =>
        /\ \A k \in Pairs :
            /\ \A d \in ObservedStaff(k) :
                 Cardinality(Covering(group_staff_assignment, k, d)) = 1
            /\ \A d \in ObservedStudents(k) :
                 Cardinality(Covering(group_student_membership, k, d)) = 1
        /\ NonOverlapping(group_staff_assignment)
        /\ NonOverlapping(group_student_membership)

\* A pair whose dates come from attendance and from marks and fall into at least
\* two intervals, next to a rebuilt staff table.
C5_Witness ==
    /\ groups_pc = "built"
    /\ group_staff_assignment # {}
    /\ \E k \in Pairs :
        /\ Cardinality(IntervalsOf(group_student_membership, k)) >= 2
        /\ \E a \in BagToSet(attendance_facts), m \in BagToSet(mark_facts) :
            /\ << a.group_id, a.student_id >> = k
            /\ << m.group_id, m.student_id >> = k
            /\ a.d # m.d

\* Two intervals of one pair with no interval of the pair between them.
Consecutive(table, iv1, iv2) ==
    /\ iv1.k = iv2.k
    /\ iv1.valid_from < iv2.valid_from
    /\ ~ \E iv3 \in IntervalsOf(table, iv1.k) :
            iv1.valid_from < iv3.valid_from /\ iv3.valid_from < iv2.valid_from

Separated(table, gap) ==
    \A iv1 \in table, iv2 \in table :
        Consecutive(table, iv1, iv2) => iv2.valid_from - iv1.valid_to > gap

SeedIntervals ==
    { [ k |-> << "G1", "P1" >>, valid_from |-> 0,  valid_to |-> 2 ],
      [ k |-> << "G1", "P1" >>, valid_from |-> 19, valid_to |-> 19 ],
      [ k |-> << "G1", "P1" >>, valid_from |-> 39, valid_to |-> 39 ] }

SeedLoaded ==
    /\ attendance_facts = SeedFacts
    /\ mark_facts = EmptyBag
    /\ merge_gap_days = DefaultMergeGapDays

\* C6: consecutive intervals [a,b], [c,d] of a pair satisfy c - b > g, and with
\* g = 14 the dates 09-01, 09-03, 09-20, 10-10 yield [09-01,09-03], [09-20,09-20],
\* [10-10,10-10].
C6_GapMergeSeparation ==
    groups_pc = "built" =>
        /\ Separated(group_staff_assignment, merge_gap_days)
        /\ Separated(group_student_membership, merge_gap_days)
        /\ SeedLoaded => group_student_membership = SeedIntervals

\* The seed scenario rebuilt, and a small pair split into two intervals.
C6_Witness ==
    /\ groups_pc = "built"
    /\ SeedLoaded
    /\ Cardinality(group_student_membership) = 3

\* The observation dates of a pair that an interval spans.
DatesInside(obs, iv) == { d \in obs : iv.valid_from <= d /\ d <= iv.valid_to }

NoOverMerge(table, Obs(_), gap) ==
    \A iv \in table :
        LET inside == DatesInside(Obs(iv.k), iv)
        IN  /\ iv.valid_from \in inside
            /\ iv.valid_to \in inside
            /\ \A d \in inside :
                 d # iv.valid_from =>
                    \E p \in inside : p < d /\ d - p <= gap

\* C7: inside every interval two consecutive observation dates of the pair are at
\* most g days apart, and the interval's bounds are observation dates: no interval
\* merges across a gap larger than g.
C7_NoOverMerging ==
    groups_pc = "built" =>
        /\ NoOverMerge(group_staff_assignment, ObservedStaff, merge_gap_days)
        /\ NoOverMerge(group_student_membership, ObservedStudents, merge_gap_days)

\* A pair with dates more than g apart next to a pair whose dates were merged.
C7_Witness ==
    /\ groups_pc = "built"
    /\ \E iv \in group_student_membership : iv.valid_from < iv.valid_to
    /\ \E k \in Pairs : Cardinality(IntervalsOf(group_student_membership, k)) >= 2

\* C8: whatever order the fact rows are scanned in, duplicates included, the
\* rebuilt tables are the same.
C8_OrderIndependence ==
    groups_pc = "built" =>
        /\ \A scanL \in ScanOrders(lesson_facts) :
             SQL_BUILD_GROUP_STAFF(scanL, merge_gap_days) = group_staff_assignment
        /\ \A scanA \in ScanOrders(attendance_facts), scanM \in ScanOrders(mark_facts) :
             SQL_BUILD_GROUP_STUDENTS(scanA, scanM, merge_gap_days) = group_student_membership

\* A pair with a date recorded twice and a later date, rebuilt from several orders.
C8_Witness ==
    /\ groups_pc = "built"
    /\ \E r \in BagToSet(attendance_facts) : CopiesIn(r, attendance_facts) >= 2
    /\ Cardinality(ScanOrders(attendance_facts)) >= 3
    /\ Cardinality(group_student_membership) >= 2

\* ------------------------------------------------------------------------
\* Claims about the raw orchestrator (checked under SpecRaw)

\* a run of mode daily has finished its daily + recovery pass
DailyPassDone == raw_pc.phase = "done" /\ raw_mode = "daily"

\* the endpoint's ledger window ended k days before the pass's today
LaggedBy(ep, k) ==
    /\ pass_ledger[ep] # None
    /\ Val(pass_ledger[ep]).window_to = Some(raw_today - k)

\* C1: when the daily + recovery pass is over, every endpoint whose ledger
\* window_to was today - 10 before the pass has had every day of
\* [today - 10, today] fetched, by the daily load or by a recovery backfill.
C1_RecoveryCompleteness ==
    DailyPassDone =>
        \A ep \in RAW_ENDPOINTS :
            LaggedBy(ep, 10) => (raw_today - 10)..raw_today \subseteq fetched[ep]

\* a pass has finished for an attendance ledger that was ten days behind
C1_Witness == DailyPassDone /\ LaggedBy(att_ENDPOINT, 10)

\* ------------------------------------------------------------------------
\* Claims about the checkpoint of the core orchestrator (checked under Spec)

CheckpointRow == sync_state[CORE_ORCHESTRATOR_ENDPOINT]
CheckpointFrom(row) == Val(Val(row).window_from)
CheckpointTo(row) == Val(Val(row).window_to)

\* the step in which the pass in progress calls set_core_checkpoint
CheckpointWrite ==
    /\ core_pass # None
    /\ Head(Val(core_pass).todo) = "checkpoint"
    /\ core_pass' # core_pass

\* C2: the checkpoint row, once written, stays; its window_from never
\* increases and its window_to never decreases; every call of
\* set_core_checkpoint(d) stores min(old_from, d) and max(old_to, d), and
\* (d, d) when there was no row.
C2_CheckpointWindowGrows ==
    [][ /\ CheckpointRow # None =>
            /\ CheckpointRow' # None
            /\ CheckpointFrom(CheckpointRow') <= CheckpointFrom(CheckpointRow)
            /\ CheckpointTo(CheckpointRow') >= CheckpointTo(CheckpointRow)
        /\ CheckpointWrite =>
            LET d == Val(core_pass).cp
            IN  /\ CheckpointRow' # None
                /\ CheckpointFrom(CheckpointRow') =
                     IF CheckpointRow = None THEN d
                     ELSE Min2(CheckpointFrom(CheckpointRow), d)
                /\ CheckpointTo(CheckpointRow') =
                     IF CheckpointRow = None THEN d
                     ELSE Max2(CheckpointTo(CheckpointRow), d)
      ]_vars

\* a checkpoint that was written with two different dates, the second write
\* of a legacy run given a date before the stored one
C2_Witness ==
    /\ CheckpointRow # None
    /\ CheckpointFrom(CheckpointRow) < CheckpointTo(CheckpointRow)
    /\ core_pc = "done"
    /\ core_args.mode \in { "init", "backfill" }
    /\ core_args.d_to # None
    /\ Val(core_args.d_to) < CheckpointTo(CheckpointRow)

\* C3: whenever a run of the core orchestrator, in any mode, writes the
\* checkpoint, the window_to that is stored is not later than today.
C3_CheckpointNotAfterToday ==
    [][ CheckpointWrite => CheckpointTo(CheckpointRow') <= today' ]_vars

\* a legacy run has stored a checkpoint later than today
C3_Witness ==
    /\ core_pc = "done"
    /\ core_args.mode \in { "init", "backfill" }
    /\ CheckpointRow # None
    /\ CheckpointTo(CheckpointRow) > today

\* the step in which main() calls core_run_auto
EntersAuto ==
    /\ core_pass' # None
    /\ Val(core_pass').fn = "core_run_auto"
    /\ core_pass = None \/ Val(core_pass).fn # "core_run_auto"

\* C4: when core_run_auto starts and the stored checkpoint is later than
\* today, its effective checkpoint is today, the changed raw endpoints are
\* those synced since today, and the run goes on.
C4_CheckpointClamp ==
    [][ ( /\ EntersAuto
          /\ get_core_checkpoint(sync_state') # None
          /\ Val(get_core_checkpoint(sync_state')) > today' )
        => /\ Val(core_pass').last_cp = Some(today')
           /\ Val(core_pass').changed = _read_recent_raw_windows(sync_state', Some(today'))
           /\ core_pc' = "auto"
      ]_vars

\* core_run_auto in progress after reading a future checkpoint, with raw
\* endpoints found changed since today
C4_Witness ==
    /\ core_pass # None
    /\ Val(core_pass).fn = "core_run_auto"
    /\ Val(core_pass).read # None
    /\ Val(Val(core_pass).read) > Val(core_pass).today
    /\ DOMAIN Val(core_pass).changed # {}

\* ------------------------------------------------------------------------
\* Claim about repeated daily runs (checked under SpecDaily)

\* the run after the first one has finished
SecondRawDone == raw_pc.phase = "done" /\ raw_runs > 1
SecondCoreDone == core_pc = "done" /\ core_runs > 1

\* C9: with upstream unchanged, a daily run after the first writes no row of
\* the raw or of the core tables, and every daily run of the core
\* orchestrator leaves the checkpoint at today.
C9_IdempotentRerun ==
    /\ SecondRawDone => raw_writes = 0
    /\ SecondCoreDone => core_writes = 0
    /\ (core_pc = "done" /\ core_runs >= 1) =>
          /\ CheckpointRow # None
          /\ CheckpointTo(CheckpointRow) = today

\* the second raw run has finished with upstream serving a current mark
C9_Witness ==
    /\ SecondRawDone
    /\ \E r \in api[mc_ENDPOINT] : r.d = today

\* ------------------------------------------------------------------------
\* Claim about killed runs (checked under SpecCrash)

\* C10: when a run of the raw orchestrator was killed between two commits
\* and the same command line has then run to its end, the raw tables and the
\* ledger are those an uninterrupted run would have produced.
C10_CrashConsistency ==
    (raw_pc.phase = "done" /\ crash_log.killed) =>
        /\ raw = crash_log.expected.raw
        /\ sync_state = crash_log.expected.sync_state

\* an init-if-empty run was killed after a commit, and the second run is over
C10_Witness ==
    /\ raw_pc.phase = "done"
    /\ crash_log.killed
    /\ crash_log.mode = "init-if-empty"
    /\ raw[att_ENDPOINT] # {}

\* ------------------------------------------------------------------------
\* Claim about the advisory locks (checked under SpecLock)

InBody(key) == { p \in Procs : session[p].pc = "body" /\ session[p].key = key }

\* C11: for each lock key at most one process is inside the guarded body;
\* a process inside the body holds the lock from its first step to its last;
\* a process that found the lock taken and waits is not inside the body.
C11_MutualExclusion ==
    \A key \in LockKeys :
        /\ Cardinality(InBody(key)) <= 1
        /\ \A p \in InBody(key) : lock_holder[key] = Some(p)
        /\ \A p \in Procs :
              (session[p].pc = "blocked" /\ session[p].key = key) =>
                  (lock_holder[key] # None /\ lock_holder[key] # Some(p))
                  \/ InBody(key) = {}

\* one process is past its first step in the raw body while a second
\* invocation with the same key waits
C11_Witness ==
    \E p, q \in Procs :
        /\ session[p].pc = "body"
        /\ session[p].key = RAW_LOCK_KEY
        /\ session[p].steps > 0
        /\ session[q].pc = "blocked"
        /\ session[q].key = RAW_LOCK_KEY

\* ------------------------------------------------------------------------
\* Claims about failing raw loaders (checked under SpecFail)

\* the run ended with the exception of the loader of endpoint ep
FailedAt(ep) == raw_pc.phase = "failed" /\ RawOrder[raw_pc.i] = ep

\* C12: when the daily load of /attendance raises, the daily loads of
\* /marks/current, /marks/final and /schedule have been attempted by the end
\* of the same run.
C12_FailureIsolation ==
    (FailedAt(att_ENDPOINT) /\ raw_mode = "daily") =>
        \A ep \in RAW_ENDPOINTS \ { att_ENDPOINT } : fetched[ep] # {}

C12_Witness == FailedAt(att_ENDPOINT) /\ raw_mode = "daily"

BadBackfill(args) ==
    /\ args.mode = "backfill"
    /\ \/ args.d_from = None
       \/ args.d_to = None
       \/ Val(args.d_from) > Val(args.d_to)

CoreLedger == { CORE_ORCHESTRATOR_ENDPOINT, core_attendance_ENDPOINT, core_marks_ENDPOINT }

\* C14: the core orchestrator started in mode backfill with one or both
\* dates missing, or with date_from > date_to, fails in the step that starts
\* it, without reaching the code under the advisory lock, and neither that
\* step nor the rest of the run writes a table or a ledger row.
C14_BackfillNeedsBothBounds ==
    [][ /\ (core_pc = "idle" /\ core_pc' # "idle" /\ BadBackfill(core_args')) =>
              /\ core_pc' = "failed"
              /\ core_pass' = None
              /\ UNCHANGED << sync_state, raw, core >>
        /\ (core_pc = "failed" /\ BadBackfill(core_args)) =>
              /\ core_pc' \in { "failed", "idle" }
              /\ core' = core
              /\ \A ep \in CoreLedger : sync_state'[ep] = sync_state[ep]
      ]_vars

\* a backfill given only --date-from has failed
C14_Witness ==
    /\ core_pc = "failed"
    /\ core_args.mode = "backfill"
    /\ core_args.d_from # None
    /\ core_args.d_to = None

\* ------------------------------------------------------------------------
\* Claim about the windows of the ledger (checked under Spec)

\* C15: every ledger row with both bounds set has window_from <= window_to,
\* whichever loader, transform or orchestrator wrote it.
C15_LedgerWindowOrdered ==
    \A ep \in Endpoints :
        ( /\ sync_state[ep] # None
          /\ Val(sync_state[ep]).window_from # None
          /\ Val(sync_state[ep]).window_to # None )
        => Val(Val(sync_state[ep]).window_from) <= Val(Val(sync_state[ep]).window_to)

\* a legacy init given date_from > date_to has recorded the window of its
\* marks transform
C15_Witness ==
    /\ core_args.mode = "init"
    /\ core_args.d_from # None
    /\ core_args.d_to # None
    /\ Val(core_args.d_from) > Val(core_args.d_to)
    /\ sync_state[core_marks_ENDPOINT] # None
    /\ Val(sync_state[core_marks_ENDPOINT]).last_successful_sync_at = today
    /\ core_pc = "done"

\* ------------------------------------------------------------------------
\* The raw loaders run from their own command lines, one at a time, and the
\* core orchestrator in mode daily

\* --init --from d_from --to d_to, in days around today; the schedule loader
\* also for the week after this one
LoaderWindows(t) == { << t - 1, t - 1 >>, << t - 1, t + 1 >>, << t + 1, t + 1 >> }

LoaderCommandLines(t) ==
    { att_run_init(w[1], w[2]) : w \in LoaderWindows(t) }
    \cup { mc_run_init(w[1], w[2]) : w \in LoaderWindows(t) }
    \cup { mf_run_init(w[1], w[2]) : w \in LoaderWindows(t) }
    \cup { sch_run_init(w[1], w[2]) : w \in LoaderWindows(t) \cup { << t + 7, t + 7 >> } }
    \cup { mf_run_daily(t) }

\* main() of a loader: fetch, (delete,) insert, then the ledger row
loader_main(j) ==
    /\ PipelineIdle
    /\ raw_runs < MaxLoads
    /\ raw_runs' = raw_runs + 1
    /\ LET rows == { r \in api[j.ep] : r.d \in j.sel }
           kept == IF j.del = None THEN raw[j.ep]
                   ELSE delete_window(raw[j.ep], Val(j.del)[1], Val(j.del)[2]).table
       IN  raw' = [ raw EXCEPT ![j.ep] = insert_rows(j.ep, kept, rows).table ]
    /\ sync_state' = upsert_sync_state(sync_state, j.ep, j.wf, j.wt, today)
    /\ UNCHANGED << today, api, core >>
    /\ UNCHANGED << raw_pc, raw_mode, raw_force, raw_today, raw_job, raw_writes,
                    fetched, pass_ledger, crash_log >>
    /\ UNCHANGED << mailVars, groupVars, coreVars >>

AutoCoreStart ==
    /\ PipelineIdle
    /\ core_runs < DailyRuns
    /\ core_main(Args("daily", FALSE, None, None))
    /\ core_runs' = core_runs + 1

InitAuto ==
    /\ MailIdle
    /\ GroupsEmpty
    /\ merge_gap_days = DefaultMergeGapDays
    /\ today = 0
    /\ api = Upstream({ 0, 1 })
    /\ sync_state = NoLedger
    /\ raw = NoRows
    /\ core = NoCore
    /\ RawIdle
    /\ CoreIdle

NextAuto ==
    \/ \E j \in LoaderCommandLines(today) : loader_main(j)
    \/ AutoCoreStart
    \/ CoreRunSteps
    \/ AdvanceDay

SpecAuto == InitAuto /\ [][NextAuto]_vars

\* ------------------------------------------------------------------------
\* Claims about the daily pass of the core orchestrator, core_run_auto

\* the pass of core_run_auto in progress
AutoPass == core_pass # None /\ Val(core_pass).fn = "core_run_auto"

\* the ledger row of a raw endpoint was synced after the checkpoint cp
NewerThan(row, cp) ==
    /\ row # None
    /\ cp = None \/ Val(row).last_successful_sync_at >= Val(cp)

\* C16: when core_run_auto starts, every raw endpoint whose ledger row was
\* synced after the clamped checkpoint is in the changed set, with the
\* window_from and window_to of its row; none is omitted.
C16_ChangedEndpointsComplete ==
    [][ EntersAuto =>
          \A ep \in RAW_ENDPOINTS :
              NewerThan(sync_state'[ep], Val(core_pass').last_cp) =>
                  /\ ep \in DOMAIN Val(core_pass').changed
                  /\ Some(Val(core_pass').changed[ep][1]) = Val(sync_state'[ep]).window_from
                  /\ Some(Val(core_pass').changed[ep][2]) = Val(sync_state'[ep]).window_to
      ]_vars

\* core_run_auto in progress: /marks/final was synced after the checkpoint it
\* read and is not among the changed endpoints
C16_Witness ==
    /\ AutoPass
    /\ Val(core_pass).last_cp # None
    /\ NewerThan(sync_state[mf_ENDPOINT], Val(core_pass).last_cp)
    /\ mf_ENDPOINT \notin DOMAIN Val(core_pass).changed
    /\ DOMAIN Val(core_pass).changed # {}

\* the window_to of the changed endpoint ep, not later than today
ClampedTo(changed, ep, t) == Min2(changed[ep][2], t)

\* the pass of core_run_auto in progress found raw endpoints changed
AutoChanged == AutoPass /\ DOMAIN Val(core_pass).changed # {}

\* C17: when a core_run_auto that found changed raw endpoints writes the
\* checkpoint, it calls set_core_checkpoint with min(today, max of the
\* window_to of the changed endpoints, each clamped to today); the stored
\* window_to becomes the larger of that date and the stored one, and a
\* checkpoint that moves does not move past today.
C17_CheckpointAdvance ==
    [][ (CheckpointWrite /\ AutoChanged) =>
          LET changed == Val(core_pass).changed
              d == Min2(today, SetMax({ ClampedTo(changed, ep, today) : ep \in DOMAIN changed }))
          IN  /\ Val(core_pass).cp = d
              /\ CheckpointRow' # None
              /\ CheckpointTo(CheckpointRow') =
                   IF CheckpointRow = None THEN d ELSE Max2(CheckpointTo(CheckpointRow), d)
              /\ (CheckpointRow = None \/ CheckpointTo(CheckpointRow') # CheckpointTo(CheckpointRow))
                    => CheckpointTo(CheckpointRow') <= today
      ]_vars

\* a core daily run is done that found two endpoints changed, one with a
\* window ending after today and one with a window ending before today, and
\* the checkpoint is today
C17_Witness ==
    /\ core_pc = "done"
    /\ core_args.mode = "daily"
    /\ CheckpointRow # None
    /\ CheckpointTo(CheckpointRow) = today
    /\ Val(CheckpointRow).last_successful_sync_at = today
    /\ \E e1, e2 \in RAW_ENDPOINTS :
          /\ NewerThan(sync_state[e1], Some(today))
          /\ NewerThan(sync_state[e2], Some(today))
          /\ Val(sync_state[e1]).window_to # None
          /\ Val(sync_state[e2]).window_to # None
          /\ Val(Val(sync_state[e1]).window_to) > today
          /\ Val(Val(sync_state[e2]).window_to) < today

WindowedSteps == { "schedule", "attendance", "attendance_ledger", "marks", "marks_ledger" }

\* C18: a core_run_auto that finds no changed raw endpoint plans the
\* snapshots, the derived intervals and the checkpoint today, and nothing
\* else; none of its steps is a windowed transform or changes the fact tables
\* of the core; its last step stores today as the checkpoint (or leaves a
\* later one) and the run ends.  Every core daily run that is done has
\* written the checkpoint row today.
C18_NoChangeRun ==
    /\ [](core_pc = "done" /\ core_args.mode = "daily" =>
            /\ CheckpointRow # None
            /\ Val(CheckpointRow).last_successful_sync_at = today)
    /\ [][ /\ (EntersAuto /\ DOMAIN Val(core_pass').changed = {}) =>
                 /\ Val(core_pass').todo =
                       << "refs", "people", "classes", "groups", "checkpoint" >>
                 /\ Val(core_pass').cp = today'
           /\ (AutoPass /\ DOMAIN Val(core_pass).changed = {} /\ core_pass' # core_pass) =>
                 /\ Head(Val(core_pass).todo) \notin WindowedSteps
                 /\ core' = core
                 /\ core_pc' # "failed"
                 /\ \A ep \in Endpoints \ { CORE_ORCHESTRATOR_ENDPOINT } :
                       sync_state'[ep] = sync_state[ep]
                 /\ CheckpointWrite =>
                       /\ CheckpointRow' # None
                       /\ Val(CheckpointRow').last_successful_sync_at = today
                       /\ CheckpointTo(CheckpointRow') =
                            IF CheckpointRow = None THEN today
                            ELSE Max2(CheckpointTo(CheckpointRow), today)
                       /\ core_pass' = None
         ]_vars

\* on day 1 a second core daily run is done; the raw ledger rows were all
\* written on day 0, the first run of day 1 found them changed and stored
\* checkpoint 1, so the second run found nothing changed
C18_Witness ==
    /\ core_pc = "done"
    /\ core_args.mode = "daily"
    /\ core_runs = 2
    /\ today = 1
    /\ CheckpointRow # None
    /\ CheckpointFrom(CheckpointRow) = 1
    /\ CheckpointTo(CheckpointRow) = 1
    /\ \E ep \in RAW_ENDPOINTS : sync_state[ep] # None
    /\ \A ep \in RAW_ENDPOINTS :
          sync_state[ep] # None =>
              /\ Val(sync_state[ep]).last_successful_sync_at = 0
              /\ Val(sync_state[ep]).window_from = Some(0 - 1)

TransformSteps == { "schedule", "attendance", "marks" }

\* the raw endpoints a windowed transform reads
RelevantEndpoints(st) ==
    CASE st = "schedule" -> { sch_ENDPOINT }
      [] st = "attendance" -> { att_ENDPOINT }
      [] st = "marks" -> { mc_ENDPOINT, mf_ENDPOINT }

\* the tables of the core a windowed transform writes
TablesOf(st) ==
    CASE st = "schedule" -> { "lesson" }
      [] st = "attendance" -> { "attendance_event" }
      [] st = "marks" -> { "mark_current", "mark_final" }

PlanOfStep(p, st) ==
    CASE st = "schedule" -> p.sch
      [] st = "attendance" -> p.att
      [] st = "marks" -> p.marks

\* [min of the froms, min(today, max of the tos)] of the endpoints eps
UnionWindow(changed, eps, t) ==
    << SetMin({ changed[ep][1] : ep \in eps }),
       Min2(t, SetMax({ changed[ep][2] : ep \in eps })) >>

StepsOf(todo) == { todo[i] : i \in DOMAIN todo }

\* C19: core_run_auto plans a windowed transform exactly when one of the raw
\* endpoints it reads is in the changed set; the transform is called in mode
\* backfill with the window [min of the changed froms, min(today, max of the
\* changed tos)] of those endpoints, whose upper bound is not later than
\* today; it is called only when from <= to, and it changes only its own
\* tables and only rows dated inside that window.
C19_TransformWindows ==
    [][ /\ EntersAuto =>
              \A st \in TransformSteps :
                  st \in StepsOf(Val(core_pass').todo)
                      <=> RelevantEndpoints(st) \cap DOMAIN Val(core_pass').changed # {}
        /\ (AutoPass /\ Head(Val(core_pass).todo) \in TransformSteps /\ core_pass' # core_pass) =>
              LET p == Val(core_pass)
                  st == Head(p.todo)
                  eps == RelevantEndpoints(st) \cap DOMAIN p.changed
                  plan == PlanOfStep(p, st)
                  w == UnionWindow(p.changed, eps, today)
              IN  /\ eps # {}
                  /\ plan # None
                  /\ Val(plan).mode = "backfill"
                  /\ << Val(plan).d_from, Val(plan).d_to >> = w
                  /\ Val(plan).d_to <= today
                  /\ (core_pc' # "failed") <=> (w[1] <= w[2])
                  /\ core_pc' = "failed" => core' = core
                  /\ \A t \in CoreTables :
                        \A r \in (core'[t] \ core[t]) \cup (core[t] \ core'[t]) :
                            /\ t \in TablesOf(st)
                            /\ w[1] <= r.d
                            /\ r.d <= w[2]
      ]_vars

\* core_run_auto has run the marks transform: /marks/current and /marks/final
\* both changed with different windows, one ending after today, and rows were
\* written
C19_Witness ==
    /\ AutoPass
    /\ Head(Val(core_pass).todo) = "marks_ledger"
    /\ { mc_ENDPOINT, mf_ENDPOINT } \subseteq DOMAIN Val(core_pass).changed
    /\ Val(core_pass).changed[mc_ENDPOINT][1] # Val(core_pass).changed[mf_ENDPOINT][1]
    /\ \E ep \in { mc_ENDPOINT, mf_ENDPOINT } : Val(core_pass).changed[ep][2] > today
    /\ Val(Val(core_pass).marks).d_to = today
    /\ core["mark_current"] # {}

\* the step of core_run_auto at a transform whose window, clamped to today,
\* has from > to
InvalidWindowStep ==
    /\ AutoPass
    /\ Head(Val(core_pass).todo) \in TransformSteps
    /\ core_pass' # core_pass
    /\ LET p == Val(core_pass)
           eps == RelevantEndpoints(Head(p.todo)) \cap DOMAIN p.changed
           w == UnionWindow(p.changed, eps, today)
       IN  w[1] > w[2]

\* the ledger row that the step st of a pass writes
RowWrittenBy(st) ==
    CASE st = "attendance_ledger" -> { core_attendance_ENDPOINT }
      [] st = "marks_ledger" -> { core_marks_ENDPOINT }
      [] st = "checkpoint" -> { CORE_ORCHESTRATOR_ENDPOINT }
      [] OTHER -> {}

\* C20: in core_run_auto a transform whose window has from > to after the
\* clamp ends the run as failed, and that step writes nothing: the ledger
\* and the core tables are as they were.  In the pass the ledger row of a
\* transform is written only in the step after that transform has committed,
\* and the checkpoint only in the last step of the pass, so a run that failed
\* has not written the checkpoint or the row of the failing transform; a
\* failed run writes nothing more.
C20_InvalidWindow ==
    [][ /\ InvalidWindowStep =>
              /\ core_pc' = "failed"
              /\ core_pass' = None
              /\ sync_state' = sync_state
              /\ core' = core
        /\ EntersAuto =>
              LET todo == Val(core_pass').todo
              IN  /\ todo[Len(todo)] = "checkpoint"
                  /\ \A i \in DOMAIN todo :
                        /\ todo[i] = "checkpoint" => i = Len(todo)
                        /\ todo[i] = "attendance_ledger" => i > 1 /\ todo[i - 1] = "attendance"
                        /\ todo[i] = "marks_ledger" => i > 1 /\ todo[i - 1] = "marks"
        /\ (AutoPass /\ core_pass' # core_pass) =>
              \A ep \in Endpoints :
                  sync_state'[ep] # sync_state[ep] => ep \in RowWrittenBy(Head(Val(core_pass).todo))
        /\ core_pc = "failed" => (sync_state' = sync_state /\ core' = core)
      ]_vars

\* a core daily run has failed at the marks transform, /marks/current having
\* a window that starts after today, after its attendance transform recorded
\* its row; no checkpoint was written
C20_Witness ==
    /\ core_pc = "failed"
    /\ core_args.mode = "daily"
    /\ sync_state[mc_ENDPOINT] # None
    /\ Val(sync_state[mc_ENDPOINT]).window_from = Some(today + 1)
    /\ sync_state[core_attendance_ENDPOINT] # None
    /\ sync_state[core_marks_ENDPOINT] = None
    /\ CheckpointRow = None

\* ------------------------------------------------------------------------
\* Claim about the recovery backfill of the raw orchestrator (checked under
\* SpecRaw)

\* the days between the window_to the pass found and today: for /schedule the
\* weeks of those days
MissingDays(ep, last_to, t) ==
    IF ep = sch_ENDPOINT THEN WeeksOf(_mondays_between(last_to + 1, t))
    ELSE _date_range(last_to + 1, t)

\* the ledger window of ep ended more than the safety gap before the pass
Trailing(ep) ==
    /\ pass_ledger[ep] # None
    /\ Val(pass_ledger[ep]).window_to # None
    /\ Val(Val(pass_ledger[ep]).window_to) < raw_today - Max2(attendance_days_back, 2)

\* C21: when the daily + recovery pass is over, for every endpoint whose
\* ledger window_to trailed today by more than the safety gap the pass has
\* fetched the days of its daily load and the missing days between that
\* window_to and today, and no other day.
C21_RecoveryExactness ==
    DailyPassDone =>
        \A ep \in RAW_ENDPOINTS :
            Trailing(ep) =>
                fetched[ep] = DailyJob(ep, raw_today).sel
                                \cup MissingDays(ep, Val(Val(pass_ledger[ep]).window_to), raw_today)

\* a pass has finished for a /marks/current ledger that ended five days ago
C21_Witness ==
    /\ DailyPassDone
    /\ Trailing(mc_ENDPOINT)
    /\ Val(pass_ledger[mc_ENDPOINT]).window_to = Some(raw_today - 5)

\* ------------------------------------------------------------------------
\* Claim about the order of the steps of a pass (checked under Spec)

\* the place of a step in the order reference data, people, classes,
\* schedule, attendance, marks, derived intervals, checkpoint
StepRank(st) ==
    CASE st = "refs" -> 1
      [] st = "people" -> 2
      [] st = "classes" -> 3
      [] st = "schedule" -> 4
      [] st = "attendance" -> 5
      [] st = "attendance_ledger" -> 6
      [] st = "marks" -> 7
      [] st = "marks_ledger" -> 8
      [] st = "groups" -> 9
      [] st = "checkpoint" -> 10

\* a function of the core orchestrator is called
EntersPass == core_pass' # None /\ (core_pass = None \/ Val(core_pass').fn # Val(core_pass).fn)

\* a step of the pass in progress has committed and the pass goes on
NextStep ==
    /\ core_pass # None
    /\ core_pass' # None
    /\ core_pass' # core_pass
    /\ Val(core_pass').fn = Val(core_pass).fn

\* C22: every function of the core orchestrator starts with run_refs, then
\* run_people, then run_classes; each step that follows comes later in the
\* order schedule, attendance, marks, run_groups, checkpoint; the checkpoint
\* is written in the step after run_groups and only then; a pass ends after
\* its checkpoint or by failing, and the ledger and the core tables a step
\* finds are those the step before it left.
C22_StepOrder ==
    [][ /\ EntersPass =>
              /\ Len(Val(core_pass').todo) >= 5
              /\ Val(core_pass').todo[1] = "refs"
              /\ Val(core_pass').todo[2] = "people"
              /\ Val(core_pass').todo[3] = "classes"
        /\ NextStep =>
              /\ Val(core_pass').todo = Tail(Val(core_pass).todo)
              /\ StepRank(Head(Val(core_pass').todo)) > StepRank(Head(Val(core_pass).todo))
              /\ Head(Val(core_pass').todo) = "checkpoint"
                    <=> Head(Val(core_pass).todo) = "groups"
        /\ CheckpointRow' # CheckpointRow =>
              /\ core_pass # None
              /\ Val(core_pass).todo = << "checkpoint" >>
        /\ (core_pass # None /\ ~ NextStep /\ core_pass' # core_pass) =>
              \/ Val(core_pass).todo = << "checkpoint" >>
              \/ core_pc' = "failed"
      ]_vars

\* the weekly deep pass of a run in mode auto is about to write its
\* checkpoint, after the init pass and the daily pass of the same run
C22_Witness ==
    /\ core_pass # None
    /\ Val(core_pass).fn = "core_weekly_deep"
    /\ Val(core_pass).todo = << "checkpoint" >>
    /\ core_args.mode = "auto"
    /\ core["lesson"] # {}

\* ------------------------------------------------------------------------
\* Claim about the full replace of the interval tables (checked under
\* SpecRebuild)

\* run_groups commits
Rebuilds ==
    /\ groups_pc' = "built"
    /\ UNCHANGED << lesson_facts, attendance_facts, mark_facts, merge_gap_days >>

\* the tables hold intervals that are not those of the current facts
Stale ==
    \/ \E scanL \in ScanOrders(lesson_facts) :
          group_staff_assignment # SQL_BUILD_GROUP_STAFF(scanL, merge_gap_days)
    \/ \E scanA \in ScanOrders(attendance_facts), scanM \in ScanOrders(mark_facts) :
          group_student_membership # SQL_BUILD_GROUP_STUDENTS(scanA, scanM, merge_gap_days)

\* C23: after every run of run_groups, whatever the two interval tables held
\* before, they equal the reconstruction over all the current facts; a second
\* run on unchanged facts leaves them as they are; a pair with no observation
\* has no interval.
C23_FullReplace ==
    /\ [](groups_pc = "built" => ~ Stale)
    /\ [][ /\ Rebuilds =>
                 /\ \A scanL \in ScanOrders(lesson_facts) :
                       group_staff_assignment' = SQL_BUILD_GROUP_STAFF(scanL, merge_gap_days)
                 /\ \A scanA \in ScanOrders(attendance_facts),
                       scanM \in ScanOrders(mark_facts) :
                       group_student_membership'
                           = SQL_BUILD_GROUP_STUDENTS(scanA, scanM, merge_gap_days)
                 /\ \A k \in Pairs :
                       /\ ObservedStaff(k) = {}
                             => IntervalsOf(group_staff_assignment', k) = {}
                       /\ ObservedStudents(k) = {}
                             => IntervalsOf(group_student_membership', k) = {}
           /\ (Rebuilds /\ groups_pc = "built") =>
                 UNCHANGED << group_staff_assignment, group_student_membership >>
         ]_vars

\* the tables were rebuilt with no mark left: a pair has no observation and
\* no interval, another pair has both
C23_Witness ==
    /\ groups_pc = "built"
    /\ mark_facts = EmptyBag
    /\ attendance_facts # EmptyBag
    /\ \E k \in Pairs :
          ObservedStudents(k) = {} /\ IntervalsOf(group_student_membership, k) = {}
    /\ \E k \in Pairs :
          ObservedStudents(k) # {} /\ IntervalsOf(group_student_membership, k) # {}
    /\ group_staff_assignment # {}

\* ------------------------------------------------------------------------
\* Claim about the window of the daily loads (checked under SpecRaw)

\* the step in which a daily load records its window in the ledger
DailyLedgerWrite ==
    /\ raw_job # None
    /\ Val(raw_job).fn = "daily"
    /\ Head(Val(raw_job).todo) = "ledger"
    /\ raw_job' # raw_job

\* C24: the daily load of every raw endpoint requests the days
\* [today - days_back, today] and records that window in its ledger row,
\* whatever the row held before.
C24_DailyWindow ==
    [][ DailyLedgerWrite =>
          LET ep == Val(raw_job).ep
              d_from == raw_today - attendance_days_back
          IN  /\ Val(raw_job).sel = d_from..raw_today
              /\ sync_state'[ep] # None
              /\ Val(sync_state'[ep]).window_from = Some(d_from)
              /\ Val(sync_state'[ep]).window_to = Some(raw_today)
      ]_vars

\* a daily pass is over on a ledger that an earlier pass had filled: the
\* /schedule row holds the whole week and the /marks/final row no window
C24_Witness ==
    /\ DailyPassDone
    /\ pass_ledger[sch_ENDPOINT] # None
    /\ raw_today # _monday_of(raw_today)
    /\ Val(sync_state[sch_ENDPOINT]).window_from = Some(_monday_of(raw_today))
    /\ Val(sync_state[sch_ENDPOINT]).window_to = Some(_monday_of(raw_today) + 6)
    /\ Val(sync_state[mf_ENDPOINT]).window_to = None
    /\ Val(sync_state[att_ENDPOINT]).window_to = Some(raw_today)

\* ------------------------------------------------------------------------
\* The raw orchestrator on a database where upstream has data for some
\* endpoints only, so that some raw tables have rows and others are empty

InitSparse ==
    /\ MailIdle
    /\ GroupsEmpty
    /\ merge_gap_days = DefaultMergeGapDays
    /\ today \in StartDays
    /\ \E have \in SUBSET RAW_ENDPOINTS :
          api = [ ep \in RAW_ENDPOINTS |->
                    IF ep \in have THEN Upstream({ today })[ep] ELSE {} ]
    /\ \E prev \in { "none", "daily" } :
        /\ sync_state = LedgerAfter(prev, today)
        /\ raw = RawAfter(prev, today, api)
    /\ core = NoCore
    /\ RawIdle
    /\ CoreIdle

NextSparse ==
    \/ \E mode \in { "init-if-empty", "auto" } : raw_runs < MaxRuns /\ raw_main(mode, FALSE)
    \/ RawRunSteps

SpecSparse == InitSparse /\ [][NextSparse]_vars

\* Claim about the init step of the raw orchestrator (checked under SpecSparse)

\* _init_if_empty is about to decide on the endpoint ep
InitDecision(ep) ==
    /\ raw_pc.phase = "init"
    /\ raw_job = None
    /\ RawOrder[raw_pc.i] = ep
    /\ raw_pc' # raw_pc \/ raw_job' # raw_job

\* some raw table was empty when the init step began: a table not yet
\* decided on is empty, or one decided on was loaded
EmptyAtInitStart ==
    \E j \in DOMAIN RawOrder :
        \/ j >= raw_pc.i /\ raw[RawOrder[j]] = {}
        \/ j < raw_pc.i /\ fetched[RawOrder[j]] # {}

\* C25: in the init step of the raw orchestrator, if any raw table was empty
\* when the step began, the init load of every endpoint is run.
C25_InitEveryEndpoint ==
    [][ \A ep \in RAW_ENDPOINTS :
            (InitDecision(ep) /\ EmptyAtInitStart) => fetched'[ep] # {}
      ]_vars

\* the init step is over: /marks/final, whose table was empty, was loaded and
\* /attendance, whose table had rows, was not
C25_Witness ==
    /\ raw_pc.phase = "done"
    /\ raw_mode = "init-if-empty"
    /\ fetched[mf_ENDPOINT] # {}
    /\ fetched[att_ENDPOINT] = {}
    /\ raw[att_ENDPOINT] # {}

\* ------------------------------------------------------------------------
\* Both orchestrators in mode auto, one run after the other, on any day of
\* the week, with and without --force-weekly-deep

AutoRawStart(force) ==
    /\ PipelineIdle
    /\ raw_runs < DailyRuns
    /\ raw_main("auto", force)

AutoModeCoreStart(force) ==
    /\ PipelineIdle
    /\ core_runs < DailyRuns
    /\ core_main(Args("auto", force, None, None))
    /\ core_runs' = core_runs + 1

InitAutoMode ==
    /\ MailIdle
    /\ GroupsEmpty
    /\ merge_gap_days = DefaultMergeGapDays
    /\ today \in StartDays
    /\ api = Upstream({ today })
    /\ sync_state = NoLedger
    /\ raw = NoRows
    /\ core = NoCore
    /\ RawIdle
    /\ CoreIdle

NextAutoMode ==
    \/ \E force \in BOOLEAN : AutoRawStart(force)
    \/ RawRunSteps
    \/ \E force \in BOOLEAN : AutoModeCoreStart(force)
    \/ CoreRunSteps

SpecAutoMode == InitAutoMode /\ [][NextAutoMode]_vars

\* Claim about the composition of mode auto (checked under SpecAutoMode)

WeeklySlot(force) == weekday(today) = 0 \/ force

REPORT_KEY == "coord_daily_attendance"
REPORT_KEY2 == "coord_daily_assessment"

\* the dates a run can report on: --date, or yesterday
ReportDates == 0..MaxDay

\* a row of rep.report_run, written after the upload of its PDF
RunRow(report_key, report_date, programme_code) ==
    [ report_key |-> report_key, report_date |-> report_date,
      programme_code |-> programme_code, pdf_drive_id |-> Some("pdf") ]

\* a row of rep.report_delivery_log; the run is named by its date and programme
DeliveryRow(report_date, programme_code, success) ==
    [ report_date |-> report_date, programme_code |-> programme_code,
      success |-> success ]

_already_done(run, report_key, report_date, programme_code) ==
    \E r \in BagToSet(run) :
        /\ r.report_key = report_key
        /\ r.report_date = report_date
        /\ r.programme_code = programme_code
        /\ r.pdf_drive_id # None

ReportIdle == [ phase |-> "idle", report_date |-> 0, todo |-> << >> ]

\* what Drive and Gmail do for one programme: the upload of the attendance
\* PDF fails, the upload of the assessment PDF fails, the send fails, the
\* send succeeds
ReportOutcomes == { "upload_fails", "second_upload_fails", "send_fails", "sent" }

\* main(): the report date is resolved, the programmes are listed
report_main(d) ==
    /\ report_pc.phase = "idle"
    /\ report_pc' = [ phase |-> "loop", report_date |-> d, todo |-> Programmes ]
    /\ UNCHANGED << report_run, delivery_log >>
    /\ UNCHANGED << workerVars, retryVars, groupVars, etlVars >>

\* main(): the body of `for pcode in programme_codes`.  `second` says that
\* the programme has lessons with unweighted marks, so that the assessment
\* PDF is made as well.  An exception of Drive leaves main().
report_programme(outcome, second) ==
    /\ report_pc.phase = "loop"
    /\ report_pc.todo # << >>
    /\ outcome = "second_upload_fails" => second
    /\ LET pcode == Head(report_pc.todo)
           d == report_pc.report_date
           run1 == SetToBag({ RunRow(REPORT_KEY, d, pcode) })
           run2 == IF second
                   THEN SetToBag({ RunRow(REPORT_KEY2, d, pcode) })
                   ELSE EmptyBag
           continue == [ report_pc EXCEPT !.todo = Tail(@) ]
       IN  IF _already_done(report_run, REPORT_KEY, d, pcode)
           THEN /\ report_pc' = continue
                /\ UNCHANGED << report_run, delivery_log >>
           ELSE CASE outcome = "upload_fails" ->
                       /\ report_pc' = ReportIdle
                       /\ UNCHANGED << report_run, delivery_log >>
                  [] outcome = "second_upload_fails" ->
                       /\ report_run' = report_run (+) run1
                       /\ report_pc' = ReportIdle
                       /\ UNCHANGED delivery_log
                  [] OTHER ->
                       /\ report_run' = report_run (+) run1 (+) run2
                       /\ delivery_log' = delivery_log (+)
                              SetToBag({ DeliveryRow(d, pcode, outcome = "sent") })
                       /\ report_pc' = continue
    /\ UNCHANGED << workerVars, retryVars, groupVars, etlVars >>

report_exit ==
    /\ report_pc.phase = "loop"
    /\ report_pc.todo = << >>
    /\ report_pc' = ReportIdle
    /\ UNCHANGED << report_run, delivery_log >>
    /\ UNCHANGED << workerVars, retryVars, groupVars, etlVars >>

InitReport ==
    /\ MailIdle
    /\ GroupsEmpty
    /\ merge_gap_days = DefaultMergeGapDays
    /\ EtlIdle

NextReport ==
    \/ \E d \in ReportDates : report_main(d)
    \/ \E outcome \in ReportOutcomes, second \in BOOLEAN :
          report_programme(outcome, second)
    \/ report_exit

SpecReport == InitReport /\ [][NextReport]_vars

\* Claim about the report email (checked under SpecReport)

Delivered(d, pcode) == BagIn(DeliveryRow(d, pcode, TRUE), delivery_log)
SendFailed(d, pcode) ==
    /\ BagIn(DeliveryRow(d, pcode, FALSE), delivery_log)
    /\ ~ Delivered(d, pcode)

\* the body of the loop passes the programme without a PDF, a run row or a send
Skipped ==
    /\ report_pc'.phase = "loop"
    /\ report_pc'.todo = Tail(report_pc.todo)
    /\ UNCHANGED << report_run, delivery_log >>

\* C27: a run that comes to a (report date, programme) whose email send
\* failed in an earlier run, and which has no successful delivery, does not
\* skip it but sends the email again; a run that comes to a pair already
\* delivered skips it.
C27_AtLeastOnce ==
    [][ (report_pc.phase = "loop" /\ report_pc.todo # << >>) =>
           LET pcode == Head(report_pc.todo)
               d == report_pc.report_date
           IN  /\ SendFailed(d, pcode) => ~ Skipped
               /\ Delivered(d, pcode) => Skipped
      ]_vars

\* a later run for the date is at a programme whose only delivery failed
C27_Witness ==
    /\ report_pc.phase = "loop"
    /\ report_pc.todo # << >>
    /\ SendFailed(report_pc.report_date, Head(report_pc.todo))
    /\ _already_done(report_run, REPORT_KEY, report_pc.report_date,
                     Head(report_pc.todo))

\* Claim about the raw windows between the layers (checked under SpecAuto)

\* the ledger row carries a window
HasWindow(row) ==
    /\ row # None
    /\ Val(row).window_from # None
    /\ Val(row).window_to # None

\* every day of the window of row old is in the window of row new
CoversWindow(new, old) ==
    /\ HasWindow(new)
    /\ Val(Val(new).window_from) <= Val(Val(old).window_from)
    /\ Val(Val(old).window_to) <= Val(Val(new).window_to)

\* no core run has started: no ledger row has been read by a core pass
NothingProcessed == core_runs = 0 /\ core_pc = "idle"

\* C28: a window that a raw loader recorded in the ledger row of its endpoint
\* and that no core pass has read yet is not lost by a later raw write: the
\* row that replaces it carries a window that includes it.
C28_NoWindowLost ==
    [][ \A ep \in RAW_ENDPOINTS :
          ( /\ NothingProcessed
            /\ HasWindow(sync_state[ep])
            /\ sync_state'[ep] # sync_state[ep] )
          => CoversWindow(sync_state'[ep], sync_state[ep])
      ]_vars

\* before any core run, the second load of /attendance has recorded a window
\* that begins after the end of the days present in the raw table
C28_Witness ==
    /\ NothingProcessed
    /\ raw_runs = 2
    /\ HasWindow(sync_state[att_ENDPOINT])
    /\ \E r \in raw[att_ENDPOINT] :
          r.d < Val(Val(sync_state[att_ENDPOINT]).window_from)

\* ------------------------------------------------------------------------
\* Retries of a Google API call: src/google/retry.py

RETRY_STATUSES == { 429, 500, 502, 503, 504 }
RETRY_REASONS == { "rateLimitExceeded", "userRateLimitExceeded" }

\* what one invocation of the callable does: it returns, it raises an
\* HttpError with a status and a reason ("none" when error_details has none),
\* or it raises another exception
Returns == [ kind |-> "return", status |-> 0, reason |-> "none" ]
HttpError(status, reason) == [ kind |-> "HttpError", status |-> status, reason |-> reason ]
OtherError == [ kind |-> "Exception", status |-> 0, reason |-> "none" ]
RuntimeError == [ kind |-> "RuntimeError", status |-> 0, reason |-> "none" ]

\* what with_retries did: the number of invocations it made, whether it
\* raised, and the invocation whose value it returned or whose exception it
\* raised (0 and RuntimeError when there was none)
Returned(calls) ==
    [ calls |-> calls, raised |-> FALSE, at |-> calls, exc |-> None ]
Raised(calls, at, exc) ==
    [ calls |-> calls, raised |-> TRUE, at |-> at, exc |-> Some(exc) ]

Retryable_always(e) == TRUE

\* (status in RETRY_STATUSES) or (reason in RETRY_REASONS)
Retryable(e) == e.status \in RETRY_STATUSES \/ e.reason \in RETRY_REASONS

\* for i in range(attempts): ... ; `last` is the exception kept so far
RECURSIVE retry_loop(_, _, _, _)
retry_loop(call, attempts, i, last) ==
    IF i >= attempts
    THEN IF last # None
         THEN Raised(i, Val(last).at, Val(last).exc)
         ELSE Raised(i, 0, RuntimeError)
    ELSE LET out == call[i + 1]
         IN  IF out.kind = "return" THEN Returned(i + 1)
             ELSE IF out.kind = "HttpError" /\ ~ Retryable(out)
             THEN Raised(i + 1, i + 1, out)
             ELSE retry_loop(call, attempts, i + 1,
                             Some([ at |-> i + 1, exc |-> out ]))

with_retries(call, attempts) == retry_loop(call, attempts, 0, None)

\* the callables and the values of `attempts` the function is applied to
MaxAttempts == 3
SendOutcomes ==
    { Returns, OtherError, HttpError(429, "none"), HttpError(400, "none"),
      HttpError(403, "none"), HttpError(403, "rateLimitExceeded") }
Callables == [ 1..MaxAttempts -> SendOutcomes ]

ApplyWithRetries(call, attempts) ==
    /\ send_call = NoCall
    /\ send_call' = [ attempts |-> attempts, call |-> call ]
    /\ send_result' = with_retries(call, attempts)
    /\ UNCHANGED << reportVars, workerVars, groupVars, etlVars >>

InitRetry ==
    /\ MailIdle
    /\ GroupsEmpty
    /\ merge_gap_days = DefaultMergeGapDays
    /\ EtlIdle

NextRetry ==
    \E call \in Callables, attempts \in 0..MaxAttempts :
        ApplyWithRetries(call, attempts)

SpecRetry == InitRetry /\ [][NextRetry]_vars

\* Claim about with_retries (checked under SpecRetry)

\* an HttpError that is not worth another try: neither its status nor its
\* reason says so
Permanent(out) ==
    /\ out.kind = "HttpError"
    /\ out.status \notin { 429, 500, 502, 503, 504 }
    /\ out.reason \notin { "rateLimitExceeded", "userRateLimitExceeded" }

\* invocation i of the last call fails in a way that is tried again
FailsRetryably(i) ==
    LET out == send_call.call[i]
    IN  out.kind # "return" /\ ~ Permanent(out)

\* invocation i is reached: every invocation before it failed retryably
Reached(i) ==
    /\ i \in 1..send_call.attempts
    /\ \A j \in 1..(i - 1) : FailsRetryably(j)

\* C30: with_retries invokes the call at most `attempts` times; when an
\* invocation that is reached succeeds, its result is returned and no further
\* invocation is made; when one raises an HttpError whose status is not in
\* 429/500/502/503/504 and whose reason is not a rate-limit reason, that error
\* is raised after exactly that invocation; when all `attempts` invocations
\* fail in a way that is tried again, the exception of the last one is
\* raised; and the function returns only the result of an invocation that
\* succeeded.
C30_BoundedRetries ==
    send_call # NoCall =>
        /\ send_result.calls <= send_call.attempts
        /\ \A i \in 1..send_call.attempts :
              /\ (Reached(i) /\ send_call.call[i].kind = "return") =>
                     send_result = Returned(i)
              /\ (Reached(i) /\ Permanent(send_call.call[i])) =>
                     send_result = Raised(i, i, send_call.call[i])
        /\ (send_call.attempts >= 1 /\ \A i \in 1..send_call.attempts : FailsRetryably(i)) =>
              send_result = Raised(send_call.attempts, send_call.attempts,
                                   send_call.call[send_call.attempts])
        /\ ~ send_result.raised =>
              /\ send_result.at \in 1..send_call.attempts
              /\ send_call.call[send_result.at].kind = "return"

\* a call that failed with a rate-limit 403, then with a 429, and then
\* succeeded at its third invocation, of three allowed
C30_Witness ==
    /\ send_call.attempts = 3
    /\ send_call.call[1] = HttpError(403, "rateLimitExceeded")
    /\ send_call.call[2] = HttpError(429, "none")
    /\ send_call.call[3] = Returns
    /\ send_result = Returned(3)

\* ------------------------------------------------------------------------
\* The email queue worker: src/google/email_worker.py

MAX_PER_HOUR == 90
BURST == 10
MAX_TRIES_PER_MESSAGE == 8

\* with_retries(_send_one, attempts=8, ...)
send_attempts == 8

\* what Gmail does with one message: every invocation succeeds, or the first
\* fails and the second succeeds, or every invocation fails in the same way
SendOne ==
    { [ i \in 1..send_attempts |-> IF i <= k THEN bad ELSE Returns ] :
        k \in { 0, 1, send_attempts }, bad \in SendOutcomes \ { Returns } }

_mark_sent(queue, id) == [ queue EXCEPT ![id].status = "sent" ]

_mark_error_requeued(queue, id) ==
    [ queue EXCEPT ![id].status = "pending", ![id].try_count = @ + 1 ]

_mark_error(queue, id) ==
    [ queue EXCEPT ![id].status = "error", ![id].try_count = @ + 1 ]

_mark_processing_to_pending(queue, id) ==
    IF queue[id].status = "processing"
    THEN [ queue EXCEPT ![id].status = "pending" ]
    ELSE queue

_bump_try(queue, id) == [ queue EXCEPT ![id].try_count = @ + 1 ]

_count_sent_last_hour(queue) ==
    Cardinality({ id \in DOMAIN queue : queue[id].status = "sent" })

\* the rows RETURNING gives, in the order of created_at
RECURSIVE BatchRows(_, _)
BatchRows(queue, ids) ==
    IF ids = {} THEN << >>
    ELSE LET id == SetMin(ids)
         IN  << [ id |-> id, try_count |-> queue[id].try_count ] >>
                 \o BatchRows(queue, ids \ { id })

\* the ids the CTE selects: the first `limit` pending rows
PendingBatch(queue, limit) ==
    LET pending == { id \in DOMAIN queue : queue[id].status = "pending" }
    IN  { id \in pending : Cardinality({ j \in pending : j < id }) < limit }

\* run_forever: the head of the loop.  Under the hourly limit a batch of
\* pending rows is marked 'processing' and returned; with no pending row the
\* worker sleeps.
_fetch_pending_batch ==
    /\ worker_batch = << >>
    /\ _count_sent_last_hour(email_queue) < MAX_PER_HOUR
    /\ LET ids == PendingBatch(email_queue, BURST)
       IN  /\ ids # {}
           /\ email_queue' =
                 [ id \in DOMAIN email_queue |->
                     IF id \in ids
                     THEN [ email_queue[id] EXCEPT !.status = "processing" ]
                     ELSE email_queue[id] ]
           /\ worker_batch' = BatchRows(email_queue, ids)
           /\ claim_count' =
                 [ id \in DOMAIN claim_count |->
                     IF id \in ids THEN claim_count[id] + 1 ELSE claim_count[id] ]
    /\ UNCHANGED << reportVars, retryVars, groupVars, etlVars >>

\* the status of the row after the handlers of run_forever
AfterSend(queue, id, try_count, res) ==
    LET last_try == (try_count + 1) >= MAX_TRIES_PER_MESSAGE
        bumped == _bump_try(queue, id)
        e == Val(res.exc)
    IN  IF ~ res.raised THEN _mark_sent(queue, id)
        ELSE IF e.kind = "HttpError" /\ e.status \in { 400, 401, 403 }
        THEN IF e.status = 403 /\ ~ last_try
             THEN _mark_processing_to_pending(bumped, id)
             ELSE _mark_error(bumped, id)
        ELSE IF last_try
             THEN _mark_error(bumped, id)
             ELSE _mark_processing_to_pending(bumped, id)

\* run_forever: the body of `for row in batch`
run_forever(call) ==
    /\ worker_batch # << >>
    /\ LET row == Head(worker_batch)
           res == with_retries(call, send_attempts)
       IN  /\ email_queue' = AfterSend(email_queue, row.id, row.try_count, res)
           /\ send_call' = [ attempts |-> send_attempts, call |-> call ]
           /\ send_result' = res
    /\ worker_batch' = Tail(worker_batch)
    /\ UNCHANGED claim_count
    /\ UNCHANGED << reportVars, groupVars, etlVars >>

\* the queue holds messages waiting to be sent and messages already sent
InitWorker ==
    /\ report_run = EmptyBag
    /\ delivery_log = EmptyBag
    /\ report_pc = ReportIdle
    /\ email_queue \in [ MessageIds -> { Message("pending", 0), Message("sent", 0) } ]
    /\ worker_batch = << >>
    /\ claim_count = [ id \in MessageIds |-> 0 ]
    /\ send_call = NoCall
    /\ send_result = NoResult
    /\ GroupsEmpty
    /\ merge_gap_days = DefaultMergeGapDays
    /\ EtlIdle

NextWorker ==
    \/ _fetch_pending_batch
    \/ \E call \in SendOne : run_forever(call)

\* the worker is a loop that runs for ever: it always takes its next step
SpecWorker == InitWorker /\ [][NextWorker]_vars /\ WF_vars(NextWorker)

\* Claim about the worker (checked under SpecWorker)

InBatch(id) == \E k \in 1..Len(worker_batch) : worker_batch[k].id = id

\* the iteration of the loop for the row at the head of the batch
Handles(id) == worker_batch # << >> /\ Head(worker_batch).id = id

\* C29: a message is 'processing' only while it waits in the batch that
\* claimed it, and the iteration that handles it leaves it 'sent', 'error' or
\* 'pending'; it is marked 'error' when its send fails and its try_count + 1
\* has reached 8, or when the send fails with HTTP 400 or 401; no message is
\* claimed more than 8 times; a 'sent' message is never changed or claimed
\* again; and in the end every message is 'sent' or 'error' for good.
C29_WorkerTermination ==
    /\ [](\A id \in MessageIds :
            /\ email_queue[id].status = "processing" => InBatch(id)
            /\ claim_count[id] <= 8)
    /\ [][ \A id \in MessageIds :
            /\ Handles(id) =>
                  /\ email_queue'[id].status \in { "sent", "error", "pending" }
                  /\ ( /\ send_result'.raised
                       /\ \/ Head(worker_batch).try_count + 1 >= 8
                          \/ Val(send_result'.exc).status \in { 400, 401 } )
                     => email_queue'[id].status = "error"
            /\ email_queue[id].status = "sent" =>
                  /\ email_queue'[id] = email_queue[id]
                  /\ claim_count'[id] = claim_count[id]
         ]_vars
    /\ <>[](\A id \in MessageIds : email_queue[id].status \in { "sent", "error" })

\* a message has been claimed 8 times and is marked 'error' after the last
C29_Witness ==
    \E id \in MessageIds :
        /\ claim_count[id] = 8
        /\ email_queue[id].status = "error"
        /\ send_result.raised

====
